---- MODULE Spec2Model ----
(***************************************************************************)
(* Model of the standalone unit propagator (sprop::ModelBuilder and        *)
(* sprop::Propagator).  Literals are naturals: 2*v is the positive and     *)
(* 2*v+1 the negative literal of variable v.  C++ vectors are modelled as  *)
(* sequences; a C++ index i is the sequence index i+1.                     *)
(***************************************************************************)
EXTENDS Integers, Sequences, FiniteSets, TLC

\* ------------------------------------------------------------------------
\* Bounds of the model
\* ------------------------------------------------------------------------
\* number of public calls made on the propagator after its construction
MaxCalls == 5

\* the number of public calls made on one propagator by the callers that
\* also call the queries
MaxQueryCalls == 4

\* ModelBuilder: the largest literal handed to the builder, the largest
\* length of its clause buffer and the number of calls made on one builder
MaxLit == 5

MaxBufferLen == 4

MaxBuilderCalls == 4

\* eliminate_subsumed: the number of variables n_all, the largest length of
\* the clause list and the number of calls made on one list
NumSubsumedVars == 3

MaxClauses == 4

MaxEliminations == 2

\* the number of public calls made on the propagator of the Waerden test case
MaxWaerdenCalls == 9

\* StampSet: the size of the universe and the number of calls made on one set
StampUniverse == 2

MaxStampCalls == 4

\* ReducedPartialExtractor: the number of public calls made by callers that
\* extract the reduced formula
MaxExtractCalls == 4

\* ------------------------------------------------------------------------
\* Program constants
\* ------------------------------------------------------------------------
\* NIL is std::numeric_limits<std::uint32_t>::max(); it is only ever compared
\* for equality and is written here as its value modulo 2^32
NIL == -1

\* ------------------------------------------------------------------------
\* literal_ops.h
\* ------------------------------------------------------------------------
negate(l) == IF l % 2 = 0 THEN l + 1 ELSE l - 1

var(l) == l \div 2

positive(l) == l % 2 = 0

negative(l) == l % 2 = 1

absolute(l) == l - (l % 2)

\* ------------------------------------------------------------------------
\* helpers for std::vector / std algorithms
\* ------------------------------------------------------------------------
Max2(a, b) == IF a >= b THEN a ELSE b

\* std::sort on a vector of literals
SortLits(s) == SortSeq(s, LAMBDA a, b : a < b)

\* std::unique + erase: drop adjacent equal elements
Unique(s) == SelectSeq([i \in 1..Len(s) |-> <<s[i], i = 1 \/ s[i] # s[i - 1]>>],
                       LAMBDA e : e[2])

UniqueLits(s) == [i \in 1..Len(Unique(s)) |-> Unique(s)[i][1]]

\* the set of elements of a sequence
Range(s) == {s[i] : i \in 1..Len(s)}

\* std::swap of two positions of a sequence
SwapAt(s, i, j) == [s EXCEPT ![i] = s[j], ![j] = s[i]]

\* a local variable: val is computed once and F is the code that uses it
With(val, F(_)) == F(val)

\* ------------------------------------------------------------------------
\* ModelBuilder
\* ------------------------------------------------------------------------
\* a default-constructed ModelBuilder
NewModel ==
    [m_current_lit |-> 0,
     m_unary_clauses |-> <<>>,
     m_binary_clauses |-> <<>>,
     m_longer_clauses |-> <<>>,
     m_current_clause_buffer |-> <<>>]

\* add_variable: result is the new builder and the returned literal
add_variable(m) ==
    [m |-> [m EXCEPT !.m_current_lit = @ + 2], ret |-> m.m_current_lit]

reserve_variables(m, n) ==
    [m EXCEPT !.m_current_lit = Max2(m.m_current_lit, 2 * n)]

\* add_literal(l)
add_literal(m, l) == [m EXCEPT !.m_current_clause_buffer = Append(@, l)]

\* the loop of p_add that compares every later literal with negate(front)
IsTautologyScan(buf) ==
    \E i \in 2..Len(buf) : negate(buf[1]) = buf[i]

\* p_add_binary that enters the clause in the list of l1 only
p_add_binary_one_way(m, l1, l2) ==
    [m EXCEPT !.m_binary_clauses =
        [(IF Len(@) < m.m_current_lit
          THEN @ \o [i \in 1..(m.m_current_lit - Len(@)) |-> <<>>]
          ELSE @) EXCEPT ![l1 + 1] = Append(@, l2)]]

p_add_binary(m, l1, l2) ==
    LET grown == IF Len(m.m_binary_clauses) < m.m_current_lit
                 THEN m.m_binary_clauses \o
                      [i \in 1..(m.m_current_lit - Len(m.m_binary_clauses)) |-> <<>>]
                 ELSE m.m_binary_clauses
        withl1 == [grown EXCEPT ![l1 + 1] = Append(@, l2)]
        withl2 == [withl1 EXCEPT ![l2 + 1] = Append(@, l1)]
    IN  [m EXCEPT !.m_binary_clauses = withl2]

\* p_add that takes an empty buffer for a clause to discard
p_add_ignores_empty(m) ==
    [m |-> [m EXCEPT !.m_current_clause_buffer = <<>>], thrown |-> FALSE]

\* p_add: result is the new builder and whether UNSATException was thrown
p_add(m) ==
    IF m.m_current_clause_buffer = <<>>
    THEN [m |-> m, thrown |-> TRUE]
    ELSE
      LET buf == UniqueLits(SortLits(m.m_current_clause_buffer))
      IN  IF IsTautologyScan(buf)
          THEN [m |-> [m EXCEPT !.m_current_clause_buffer = <<>>], thrown |-> FALSE]
          ELSE
            LET m1 == IF buf[Len(buf)] >= m.m_current_lit
                      THEN [m EXCEPT !.m_current_lit = absolute(buf[Len(buf)]) + 2]
                      ELSE m
                m2 == CASE Len(buf) = 1 ->
                             [m1 EXCEPT !.m_unary_clauses = Append(@, buf[1])]
                        [] Len(buf) = 2 -> p_add_binary(m1, buf[1], buf[2])
                        [] OTHER ->
                             [m1 EXCEPT !.m_longer_clauses = Append(@, buf)]
            IN  [m |-> [m2 EXCEPT !.m_current_clause_buffer = <<>>], thrown |-> FALSE]

\* add_clause(range): append the literals to the buffer, then p_add
add_clause(m, clause) ==
    p_add([m EXCEPT !.m_current_clause_buffer = @ \o clause])

\* finalize_clause()
finalize_clause(m) == p_add(m)

\* add_clause for every clause of a list, the first half of the list before
\* the second, up to the first call that throws: result is the new builder
\* and whether UNSATException was thrown
RECURSIVE AddClausesChecked(_, _)
AddClausesChecked(m, clauses) ==
    IF clauses = <<>> THEN [m |-> m, thrown |-> FALSE]
    ELSE IF Len(clauses) = 1 THEN add_clause(m, clauses[1])
    ELSE With(AddClausesChecked(m, SubSeq(clauses, 1, Len(clauses) \div 2)),
              LAMBDA r :
                 IF r.thrown THEN r
                 ELSE AddClausesChecked(r.m, SubSeq(clauses, Len(clauses) \div 2 + 1,
                                                    Len(clauses))))

\* add every clause of a list to the builder
AddClauses(m, clauses) == AddClausesChecked(m, clauses).m

\* assignment[v] == positive(l), for a bit vector given as a function on 0..n-1
satisfies(assignment, l) == assignment[var(l)] = positive(l)

\* verify_assignment: TRUE when no error is reported (std::nullopt)
verify_assignment(m, assignment) ==
    /\ DOMAIN assignment = 0..(var(m.m_current_lit) - 1)
    /\ \A i \in 1..Len(m.m_unary_clauses) : satisfies(assignment, m.m_unary_clauses[i])
    /\ \A l1 \in 0..(Len(m.m_binary_clauses) - 1) :
          \/ satisfies(assignment, l1)
          \/ \A j \in 1..Len(m.m_binary_clauses[l1 + 1]) :
                satisfies(assignment, m.m_binary_clauses[l1 + 1][j])
    /\ \A c \in 1..Len(m.m_longer_clauses) :
          \E j \in 1..Len(m.m_longer_clauses[c]) :
             satisfies(assignment, m.m_longer_clauses[c][j])

\* verify_trail: TRUE when no error is reported
verify_trail(m, full_trail) ==
    LET n == var(m.m_current_lit)
    IN  /\ Len(full_trail) = n
        /\ \A i \in 1..Len(full_trail) : var(full_trail[i]) < n
        /\ \A i, j \in 1..Len(full_trail) :
              i # j => var(full_trail[i]) # var(full_trail[j])
        /\ verify_assignment(m, [v \in 0..(n - 1) |->
                                   \E i \in 1..Len(full_trail) :
                                      full_trail[i] = 2 * v])

\* ------------------------------------------------------------------------
\* Reason (reason.h)
\* ------------------------------------------------------------------------
Decision == [reason_length |-> 0, literals |-> <<>>, clause |-> NIL]

Unary(l) == [reason_length |-> 1, literals |-> <<l>>, clause |-> NIL]

Binary(l1, l2) == [reason_length |-> 2, literals |-> <<l1, l2>>, clause |-> NIL]

Clause(len, ref) == [reason_length |-> len, literals |-> <<>>, clause |-> ref]

\* ------------------------------------------------------------------------
\* detail::VariableState and detail::LevelInfo
\* ------------------------------------------------------------------------
VariableState == [value_code |-> -1, stamp |-> 0, trail_pos |-> NIL]

vs_assign(vs, tpos, ltrue, lvl) ==
    [vs EXCEPT !.value_code = (2 * lvl) + (ltrue % 2), !.trail_pos = tpos]

\* value_code >> 1 (arithmetic shift: -1 stays -1)
vs_level(vs) == vs.value_code \div 2

vs_state(vs, l) ==
    IF vs.value_code < 0 THEN -1
    ELSE IF (l % 2) = (vs.value_code % 2) THEN 1 ELSE 0

vs_make_open(vs) == [vs EXCEPT !.value_code = -1]

vs_is_open(vs) == vs.value_code < 0

vs_is_false(vs, l) == vs.value_code >= 0 /\ (l % 2) # (vs.value_code % 2)

vs_is_true(vs, l) == vs.value_code >= 0 /\ (l % 2) = (vs.value_code % 2)

vs_is_open_or_true(vs, l) == vs.value_code < 0 \/ (l % 2) = (vs.value_code % 2)

vs_stamp_with(vs, v) == [vs EXCEPT !.stamp = v]

LevelInfo(tpos) == [trail_pos |-> tpos, stamp |-> 0]

\* ------------------------------------------------------------------------
\* Propagator: clause access and state queries
\* ------------------------------------------------------------------------
\* literals of the long clause whose first literal is at arena index ref
lits_of(p, ref) ==
    [j \in 1..p.m_large_clause_db[ref] |-> p.m_large_clause_db[ref + j]]

clause_length(p, ref) == p.m_large_clause_db[ref]

next_clause(p, ref) == ref + p.m_large_clause_db[ref] + 1

first_longer_clause == 1

longer_clause_end(p) == Len(p.m_large_clause_db) + 1

binary_partners_of(p, l) == p.m_binary_clauses[l + 1]

\* Reason::lits
reason_lits(p, r) ==
    IF r.reason_length = 0 THEN <<>>
    ELSE IF r.reason_length <= 2 THEN r.literals
    ELSE lits_of(p, r.clause)

value_of(p, l) == vs_state(p.variables[var(l)], l)

is_true(p, l) == vs_is_true(p.variables[var(l)], l)

is_false(p, l) == vs_is_false(p.variables[var(l)], l)

is_open_or_true(p, l) == vs_is_open_or_true(p.variables[var(l)], l)

is_open(p, l) == vs_is_open(p.variables[var(l)])

get_decision_level(p, l) == vs_level(p.variables[var(l)])

get_trail_index(p, l) == p.variables[var(l)].trail_pos

get_reason(p, l) == p.trail_reasons[get_trail_index(p, l) + 1]

get_current_level(p) == Len(p.levels) - 1

level_begin(p) == p.levels[Len(p.levels)].trail_pos

\* ------------------------------------------------------------------------
\* Propagator: construction
\* ------------------------------------------------------------------------
p_assign_at_0(p, forced_true) ==
    LET vstate == p.variables[var(forced_true)]
    IN  IF vs_is_open(vstate)
        THEN [p |-> [p EXCEPT
                       !.variables[var(forced_true)] =
                           vs_assign(vstate, Len(p.trail_lits), forced_true, 0),
                       !.trail_lits = Append(@, forced_true),
                       !.trail_reasons = Append(@, Unary(forced_true))],
              ret |-> TRUE]
        ELSE IF vs_is_false(vstate, forced_true)
             THEN [p |-> [p EXCEPT !.conflicting = TRUE], ret |-> FALSE]
             ELSE [p |-> p, ret |-> TRUE]

\* p_assign_at that stores level 0 for every literal
p_assign_at_level_0(p, lvl, literal, reason) ==
    [p EXCEPT
       !.variables[var(literal)] = vs_assign(@, Len(p.trail_lits), literal, 0),
       !.trail_lits = Append(@, literal),
       !.trail_reasons = Append(@, reason)]

p_assign_at(p, lvl, literal, reason) ==
    [p EXCEPT
       !.variables[var(literal)] = vs_assign(@, Len(p.trail_lits), literal, lvl),
       !.trail_lits = Append(@, literal),
       !.trail_reasons = Append(@, reason)]

\* p_init_unaries, from the i-th unary clause on
RECURSIVE p_init_unaries_from(_, _)
p_init_unaries_from(p, i) ==
    IF i > Len(p.m_unary_clauses) THEN p
    ELSE With(p_assign_at_0(p, p.m_unary_clauses[i]), LAMBDA r :
             IF ~r.ret THEN [r.p EXCEPT !.conflicting = TRUE]
             ELSE p_init_unaries_from(r.p, i + 1))

p_init_unaries(p) == p_init_unaries_from(p, 1)

\* p_init_binary_watches, at literal l and the j-th partner of l
RECURSIVE p_init_binary_watches_from(_, _, _)
p_init_binary_watches_from(p, l, j) ==
    IF l >= 2 * p.m_num_vars THEN p
    ELSE IF j = 1 /\ ~is_false(p, l)
         THEN p_init_binary_watches_from(p, l + 1, 1)
         ELSE IF j > Len(binary_partners_of(p, l))
              THEN p_init_binary_watches_from(p, l + 1, 1)
              ELSE With(binary_partners_of(p, l)[j], LAMBDA partner :
                   With(p_assign_at_0(
                            [p EXCEPT !.m_unary_clauses = Append(@, partner)],
                            partner), LAMBDA r :
                       IF ~r.ret THEN r.p
                       ELSE p_init_binary_watches_from(r.p, l, j + 1)))

p_init_binary_watches(p) == p_init_binary_watches_from(p, 0, 1)

\* the scan of p_new_long_clause_on_construction: nws and the positions new_first
RECURSIVE ScanLongClause(_, _, _, _)
ScanLongClause(p, literals, j, new_first) ==
    IF j > Len(literals) THEN [nws |-> Len(new_first), new_first |-> new_first]
    ELSE With(value_of(p, literals[j]), LAMBDA s :
             IF s = -1
             THEN ScanLongClause(p, literals, j + 1,
                                 IF Len(new_first) < 2 THEN Append(new_first, j)
                                 ELSE new_first)
             ELSE IF s = 1 THEN [nws |-> -1, new_first |-> new_first]
                  ELSE ScanLongClause(p, literals, j + 1, new_first))

p_new_long_clause_on_construction(p, ref) ==
    With(lits_of(p, ref), LAMBDA literals :
    With(ScanLongClause(p, literals, 1, <<>>), LAMBDA scan :
        CASE scan.nws = -1 -> p
          [] scan.nws = 0 ->
               [p EXCEPT !.conflicting = TRUE,
                         !.conflict_reason = Clause(Len(literals), ref)]
          [] scan.nws = 1 ->
               With(literals[scan.new_first[1]], LAMBDA forced_true :
                   p_assign_at_0([p EXCEPT !.m_unary_clauses = Append(@, forced_true)],
                                 forced_true).p)
          [] OTHER ->
               With(SwapAt(SwapAt(p.m_large_clause_db, ref + scan.new_first[1], ref + 1),
                           ref + scan.new_first[2], ref + 2), LAMBDA db2 :
               With(db2[ref + 1], LAMBDA w1 :
               With(db2[ref + 2], LAMBDA w2 :
                   [p EXCEPT
                      !.m_large_clause_db = db2,
                      !.watchers[w1 + 1] = Append(@, [blocker |-> w2, clause |-> ref]),
                      !.watchers[w2 + 1] = Append(@, [blocker |-> w1, clause |-> ref])])))))

\* the loop of p_init_watches over the arena, from clause ref on; the loop
\* is left at a conflict
RECURSIVE p_init_long_from(_, _)
p_init_long_from(p, ref) ==
    IF p.conflicting \/ ref >= longer_clause_end(p) THEN p
    ELSE p_init_long_from(p_new_long_clause_on_construction(p, ref),
                          next_clause(p, ref))

p_init_watches(p) ==
    With(p_init_unaries(p), LAMBDA q :
        IF q.conflicting THEN q
        ELSE With(p_init_long_from(
                      [q EXCEPT !.watchers = [i \in 1..(2 * q.m_num_vars) |-> <<>>]],
                      first_longer_clause), LAMBDA r :
                 IF r.conflicting THEN r ELSE p_init_binary_watches(r)))

p_process_short_clauses(p) ==
    LET sorted == [i \in 1..Len(p.m_binary_clauses) |->
                      UniqueLits(SortLits(p.m_binary_clauses[i]))]
    IN  [p EXCEPT !.m_binary_clauses =
            [i \in 1..(2 * p.m_num_vars) |->
                IF i <= Len(sorted) THEN sorted[i] ELSE <<>>]]

RECURSIVE FlattenClauses(_)
FlattenClauses(clauses) ==
    IF clauses = <<>> THEN <<>>
    ELSE IF Len(clauses) = 1 THEN <<Len(clauses[1])>> \o clauses[1]
    ELSE FlattenClauses(SubSeq(clauses, 1, Len(clauses) \div 2))
         \o FlattenClauses(SubSeq(clauses, Len(clauses) \div 2 + 1, Len(clauses)))

p_import_large_clauses(p, clauses) ==
    [p EXCEPT !.m_large_clause_db = @ \o FlattenClauses(clauses)]

\* ------------------------------------------------------------------------
\* Propagator: rollback and conflict reset
\* ------------------------------------------------------------------------
\* p_rollback_level that forgets to pop the reasons of the level
p_rollback_level_keeps_reasons(p, report) ==
    With(level_begin(p), LAMBDA lbegin :
    With(Len(p.trail_lits), LAMBDA n :
        [p |-> [p EXCEPT
                  !.variables = [v \in DOMAIN p.variables |->
                                    IF \E k \in (lbegin + 1)..n : var(p.trail_lits[k]) = v
                                    THEN vs_make_open(p.variables[v])
                                    ELSE p.variables[v]],
                  !.trail_lits = SubSeq(p.trail_lits, 1, lbegin),
                  !.levels = SubSeq(p.levels, 1, Len(p.levels) - 1)],
         undone |-> IF report
                    THEN [k \in 1..(n - lbegin) |-> p.trail_lits[n + 1 - k]]
                    ELSE <<>>]))

\* p_rollback_level that leaves the values of the variables
p_rollback_level_keeps_values(p, report) ==
    With(level_begin(p), LAMBDA lbegin :
    With(Len(p.trail_lits), LAMBDA n :
        [p |-> [p EXCEPT
                  !.trail_lits = SubSeq(p.trail_lits, 1, lbegin),
                  !.trail_reasons = SubSeq(p.trail_reasons, 1, lbegin),
                  !.levels = SubSeq(p.levels, 1, Len(p.levels) - 1)],
         undone |-> IF report
                    THEN [k \in 1..(n - lbegin) |-> p.trail_lits[n + 1 - k]]
                    ELSE <<>>]))

\* p_rollback_level: every literal of the top level is made open (last one
\* first), the trail and the reasons are cut at the level's begin and the
\* level is popped.  The result carries the literals in the order in which
\* they are handed to handler.assignment_undone when report is set.
p_rollback_level(p, report) ==
    LET lbegin == level_begin(p)
        n == Len(p.trail_lits)
        undone == [k \in 1..(n - lbegin) |-> p.trail_lits[n + 1 - k]]
    IN  [p |-> [p EXCEPT
                  !.variables = [v \in DOMAIN p.variables |->
                                    IF \E k \in (lbegin + 1)..n : var(p.trail_lits[k]) = v
                                    THEN vs_make_open(p.variables[v])
                                    ELSE p.variables[v]],
                  !.trail_lits = SubSeq(p.trail_lits, 1, lbegin),
                  !.trail_reasons = SubSeq(p.trail_reasons, 1, lbegin),
                  !.levels = SubSeq(p.levels, 1, Len(p.levels) - 1)],
         undone |-> IF report THEN undone ELSE <<>>]

p_reset_conflict(p) ==
    [p EXCEPT !.conflicting = FALSE, !.conflict_lit = NIL, !.conflict_reason = Decision]

\* ------------------------------------------------------------------------
\* Propagator: unit propagation
\* ------------------------------------------------------------------------
\* p_propagate_binary that records a conflict without its literal
p_propagate_binary_without_conflict_lit(p, lfalse, other, lvl) ==
    LET vs == p.variables[var(other)]
    IN  IF vs_is_open(vs)
        THEN [p |-> p_assign_at(p, lvl, other, Binary(lfalse, other)), ret |-> TRUE]
        ELSE IF vs_is_false(vs, other)
             THEN [p |-> [p EXCEPT !.conflicting = TRUE,
                                   !.conflict_reason = Binary(lfalse, other)],
                   ret |-> FALSE]
             ELSE [p |-> p, ret |-> TRUE]

\* p_propagate_binary that records the true literal in place of lfalse
p_propagate_binary_reason_without_lfalse(p, lfalse, other, lvl) ==
    LET vs == p.variables[var(other)]
    IN  IF vs_is_open(vs)
        THEN [p |-> p_assign_at(p, lvl, other, Binary(negate(lfalse), other)),
              ret |-> TRUE]
        ELSE IF vs_is_false(vs, other)
             THEN [p |-> [p EXCEPT !.conflicting = TRUE,
                                   !.conflict_reason = Binary(lfalse, other),
                                   !.conflict_lit = other],
                   ret |-> FALSE]
             ELSE [p |-> p, ret |-> TRUE]

p_propagate_binary(p, lfalse, other, lvl) ==
    LET vs == p.variables[var(other)]
    IN  IF vs_is_open(vs)
        THEN [p |-> p_assign_at(p, lvl, other, Binary(lfalse, other)), ret |-> TRUE]
        ELSE IF vs_is_false(vs, other)
             THEN [p |-> [p EXCEPT !.conflicting = TRUE,
                                   !.conflict_reason = Binary(lfalse, other),
                                   !.conflict_lit = other],
                   ret |-> FALSE]
             ELSE [p |-> p, ret |-> TRUE]

\* the loop of p_propagate_through_binaries, at the j-th partner of lfalse
RECURSIVE p_propagate_through_binaries_from(_, _, _, _)
p_propagate_through_binaries_from(p, lfalse, lvl, j) ==
    IF j > Len(binary_partners_of(p, lfalse)) THEN [p |-> p, ret |-> TRUE]
    ELSE With(p_propagate_binary(p, lfalse, binary_partners_of(p, lfalse)[j], lvl),
              LAMBDA r :
                 IF ~r.ret THEN r
                 ELSE p_propagate_through_binaries_from(r.p, lfalse, lvl, j + 1))

p_propagate_through_binaries(p, ltrue) ==
    p_propagate_through_binaries_from(p, negate(ltrue), Len(p.levels) - 1, 1)

\* std::find_if(lit_array + 2, lit_end, is_open_or_true): position in the
\* clause (1-based) of the first open or true literal from the third on, or
\* 0 when there is none
FindReplacement(p, clause) ==
    With({j \in 3..clause_length(p, clause) :
             is_open_or_true(p, p.m_large_clause_db[clause + j])}, LAMBDA cand :
        IF cand = {} THEN 0 ELSE CHOOSE j \in cand : \A k \in cand : j <= k)

\* the main loop of p_propagate_through_longer: ws is the watch list of
\* lfalse as it was on entry, in the (1-based) position of watcher_in, out
\* the watchers written through watcher_out so far
RECURSIVE WatchLoop(_, _, _, _, _, _)
WatchLoop(p, lfalse, lvl, ws, in, out) ==
    IF in > Len(ws)
    THEN [p EXCEPT !.watchers[lfalse + 1] = out]
    ELSE IF is_true(p, ws[in].blocker)
    THEN WatchLoop(p, lfalse, lvl, ws, in + 1, Append(out, ws[in]))
    ELSE
      With(ws[in].clause, LAMBDA clause :
      With(IF p.m_large_clause_db[clause + 1] = lfalse
           THEN [p EXCEPT !.m_large_clause_db =
                              SwapAt(@, clause + 1, clause + 2)]
           ELSE p, LAMBDA p1 :
      With(p1.m_large_clause_db[clause + 1], LAMBDA first :
      With([blocker |-> first, clause |-> clause], LAMBDA new_watcher :
         IF first # ws[in].blocker /\ is_true(p1, first)
         THEN WatchLoop(p1, lfalse, lvl, ws, in + 1, Append(out, new_watcher))
         ELSE
           With(FindReplacement(p1, clause), LAMBDA replacement :
              IF replacement # 0
              THEN With(p1.m_large_clause_db[clause + replacement], LAMBDA repl :
                      WatchLoop([p1 EXCEPT
                                   !.m_large_clause_db[clause + 2] = repl,
                                   !.m_large_clause_db[clause + replacement] = lfalse,
                                   !.watchers[repl + 1] = Append(@, new_watcher)],
                                lfalse, lvl, ws, in + 1, out))
              ELSE With(Clause(clause_length(p1, clause), clause), LAMBDA reason :
                      IF is_false(p1, first)
                      THEN [p1 EXCEPT
                              !.conflicting = TRUE,
                              !.conflict_lit = first,
                              !.conflict_reason = reason,
                              !.watchers[lfalse + 1] =
                                  Append(out, new_watcher) \o
                                  SubSeq(ws, in + 1, Len(ws))]
                      ELSE WatchLoop(p_assign_at(p1, lvl, first, reason),
                                     lfalse, lvl, ws, in + 1,
                                     Append(out, new_watcher))))))))

\* p_propagate_through_longer that leaves the surviving watchers in reverse
\* order
p_propagate_through_longer_reversed(p, ltrue) ==
    With(WatchLoop(p, negate(ltrue), Len(p.levels) - 1,
                   p.watchers[negate(ltrue) + 1], 1, <<>>), LAMBDA q :
        [p |-> [q EXCEPT !.watchers[negate(ltrue) + 1] =
                   [i \in 1..Len(@) |-> @[Len(@) + 1 - i]]],
         ret |-> ~q.conflicting])

p_propagate_through_longer(p, ltrue) ==
    With(WatchLoop(p, negate(ltrue), Len(p.levels) - 1,
                   p.watchers[negate(ltrue) + 1], 1, <<>>), LAMBDA q :
        [p |-> q, ret |-> ~q.conflicting])

\* p_propagate that walks the watch list before the binary partners
p_propagate_longer_first(p, ltrue) ==
    With(p_propagate_through_longer(p, ltrue), LAMBDA r :
        IF ~r.ret THEN r ELSE p_propagate_through_binaries(r.p, ltrue))

p_propagate(p, ltrue) ==
    With(p_propagate_through_binaries(p, ltrue), LAMBDA r :
        IF ~r.ret THEN r ELSE p_propagate_through_longer(r.p, ltrue))

\* the loop of propagate()
RECURSIVE propagate_loop(_)
propagate_loop(p) ==
    IF p.trail_queue_head < Len(p.trail_lits)
    THEN With(p_propagate([p EXCEPT !.trail_queue_head = @ + 1],
                          p.trail_lits[p.trail_queue_head + 1]), LAMBDA r :
             IF ~r.ret THEN r ELSE propagate_loop(r.p))
    ELSE [p |-> p, ret |-> TRUE]

\* propagate that stops after the first queued literal
propagate_first_only(p) ==
    IF p.conflicting THEN [p |-> p, ret |-> FALSE]
    ELSE IF p.trail_queue_head < Len(p.trail_lits)
         THEN p_propagate([p EXCEPT !.trail_queue_head = @ + 1],
                          p.trail_lits[p.trail_queue_head + 1])
         ELSE [p |-> p, ret |-> TRUE]

propagate(p) ==
    IF p.conflicting THEN [p |-> p, ret |-> FALSE] ELSE propagate_loop(p)

\* Propagator(const ModelBuilder&)
NewPropagator(model) ==
    LET n == model.m_current_lit \div 2
        p0 == [m_unary_clauses |-> model.m_unary_clauses,
               m_binary_clauses |-> model.m_binary_clauses,
               m_large_clause_db |-> <<>>,
               m_num_vars |-> n,
               variables |-> [v \in 0..(n - 1) |-> VariableState],
               watchers |-> <<>>,
               trail_lits |-> <<>>,
               trail_reasons |-> <<>>,
               levels |-> <<LevelInfo(0)>>,
               trail_queue_head |-> 0,
               conflict_reason |-> Decision,
               conflict_lit |-> NIL,
               stamp_counter |-> 0,
               conflicting |-> FALSE,
               learn_buffer |-> <<>>,
               supporting_decision_buffer |-> <<>>]
    IN  With(p_init_watches(
                 p_import_large_clauses(p_process_short_clauses(p0),
                                        model.m_longer_clauses)), LAMBDA p3 :
            IF ~p3.conflicting THEN propagate(p3).p ELSE p3)

\* ------------------------------------------------------------------------
\* Propagator: conflict analysis
\* ------------------------------------------------------------------------
\* stamp_counter >= std::numeric_limits<std::uint32_t>::max() - 6, with the
\* 32-bit bound 2^32 - 1 written as 65535 * 65536 + 65535
NearStampWrap(c) == c \div 65536 = 65535 /\ c % 65536 >= 65535 - 6

p_increase_stamp(p) ==
    LET q == IF NearStampWrap(p.stamp_counter)
             THEN [p EXCEPT
                     !.variables = [v \in DOMAIN p.variables |->
                                       vs_stamp_with(p.variables[v], 0)],
                     !.levels = [i \in 1..Len(p.levels) |->
                                    [p.levels[i] EXCEPT !.stamp = 0]],
                     !.stamp_counter = 0]
             ELSE p
    IN  [q EXCEPT !.stamp_counter = @ + 3]

p_stamp_level(p, lvl) ==
    IF p.levels[lvl + 1].stamp < p.stamp_counter
    THEN [p EXCEPT !.levels[lvl + 1].stamp = p.stamp_counter]
    ELSE [p EXCEPT !.levels[lvl + 1].stamp = p.stamp_counter + 1]

\* the loop of p_stamp_and_count over literals, at position j, with the
\* count so far
RECURSIVE p_stamp_and_count_from(_, _, _, _, _)
p_stamp_and_count_from(p, lvl, literals, j, count) ==
    IF j > Len(literals) THEN [p |-> p, count |-> count]
    ELSE
      LET l == literals[j]
          v == var(l)
          vs == p.variables[v]
          vlvl == vs_level(vs)
      IN  IF vlvl >= lvl
          THEN IF vs.stamp >= p.stamp_counter
               THEN p_stamp_and_count_from(p, lvl, literals, j + 1, count)
               ELSE p_stamp_and_count_from(
                        [p EXCEPT !.variables[v].stamp = p.stamp_counter],
                        lvl, literals, j + 1, count + 1)
          ELSE IF vlvl <= 0
               THEN p_stamp_and_count_from(p, lvl, literals, j + 1, count)
               ELSE IF vs.stamp < p.stamp_counter
                    THEN p_stamp_and_count_from(
                             [p_stamp_level(p, vlvl) EXCEPT
                                 !.learn_buffer = Append(@, l),
                                 !.variables[v].stamp = p.stamp_counter],
                             lvl, literals, j + 1, count)
                    ELSE p_stamp_and_count_from(p, lvl, literals, j + 1, count)

p_stamp_and_count(p, lvl, reason) ==
    p_stamp_and_count_from(p, lvl, reason_lits(p, reason), 1, 0)

\* p_is_redundant(v) and its loop over the literals of the reason of v
RECURSIVE p_is_redundant(_, _)
RECURSIVE p_is_redundant_loop(_, _, _, _)
p_is_redundant_loop(p, v, lits, j) ==
    IF j > Len(lits)
    THEN [p |-> [p EXCEPT !.variables[v].stamp = p.stamp_counter + 1], ret |-> TRUE]
    ELSE
      LET rv == var(lits[j])
          rlvl == vs_level(p.variables[rv])
          rs == p.variables[rv].stamp
      IN  IF rv = v \/ rlvl = 0
          THEN p_is_redundant_loop(p, v, lits, j + 1)
          ELSE IF rs = p.stamp_counter + 2
               THEN [p |-> p, ret |-> FALSE]
               ELSE IF rs < p.stamp_counter
                    THEN IF p.levels[rlvl + 1].stamp < p.stamp_counter
                         THEN [p |-> p, ret |-> FALSE]
                         ELSE With(p_is_redundant(p, rv), LAMBDA r :
                                  IF ~r.ret
                                  \* rvs is a copy: its stamp_with is lost
                                  THEN [p |-> r.p, ret |-> FALSE]
                                  ELSE p_is_redundant_loop(r.p, v, lits, j + 1))
                    ELSE p_is_redundant_loop(p, v, lits, j + 1)

p_is_redundant(p, v) ==
    LET vs == p.variables[v]
        s == vs.stamp
    IN  IF s = p.stamp_counter + 1 THEN [p |-> p, ret |-> TRUE]
        ELSE IF s = p.stamp_counter + 2 THEN [p |-> p, ret |-> FALSE]
        ELSE LET r == p.trail_reasons[vs.trail_pos + 1]
             IN  IF r.reason_length = 0
                 THEN [p |-> [p EXCEPT !.variables[v].stamp = p.stamp_counter + 2],
                       ret |-> FALSE]
                 ELSE p_is_redundant_loop(p, v, reason_lits(p, r), 1)

\* the predicate 'filter' of p_filter_redundancies
filter(p, l) ==
    LET v == var(l)
        vlvl == vs_level(p.variables[v])
    IN  IF vlvl = 0 THEN [p |-> p, ret |-> TRUE]
        ELSE IF p.levels[vlvl + 1].stamp # p.stamp_counter + 1
             THEN [p |-> p, ret |-> FALSE]
             ELSE p_is_redundant(p, v)

\* std::remove_if(learn_buffer.begin() + 1, end, filter) and erase: buf is
\* the buffer on entry, j the position examined, kept the literals kept
RECURSIVE RemoveIfFilter(_, _, _, _)
RemoveIfFilter(p, buf, j, kept) ==
    IF j > Len(buf) THEN [p EXCEPT !.learn_buffer = kept]
    ELSE With(filter(p, buf[j]), LAMBDA r :
             RemoveIfFilter(r.p, buf, j + 1,
                            IF r.ret THEN kept ELSE Append(kept, buf[j])))

p_filter_redundancies(p) ==
    With(SwapAt(p.learn_buffer, Len(p.learn_buffer), 1), LAMBDA buf :
        RemoveIfFilter([p EXCEPT !.learn_buffer = buf], buf, 2, <<buf[1]>>))

\* the first loop of p_compute_conflict_clause: it is the (0-based) trail
\* index of trail_lit_iter
RECURSIVE WalkTrail(_, _, _, _)
WalkTrail(p, lvl, it, on_current_level) ==
    IF on_current_level > 1
    THEN LET v == var(p.trail_lits[it + 1])
         IN  IF p.variables[v].stamp >= p.stamp_counter
             THEN With(p_stamp_and_count(p, lvl, p.trail_reasons[it + 1]), LAMBDA r :
                      WalkTrail(r.p, lvl, it - 1, on_current_level + r.count - 1))
             ELSE WalkTrail(p, lvl, it - 1, on_current_level)
    ELSE [p |-> p, it |-> it]

\* the second loop: back to the last stamped literal
RECURSIVE FindStamped(_, _)
FindStamped(p, it) ==
    IF p.variables[var(p.trail_lits[it + 1])].stamp >= p.stamp_counter
    THEN it
    ELSE FindStamped(p, it - 1)

p_compute_conflict_clause(p) ==
    With(Len(p.levels) - 1, LAMBDA lvl :
    With(p_stamp_and_count(p_increase_stamp(p), lvl, p.conflict_reason), LAMBDA r :
    With(WalkTrail(r.p, lvl, Len(p.trail_lits) - 1, r.count), LAMBDA w :
    With(FindStamped(w.p, w.it), LAMBDA it :
        p_filter_redundancies(
            [w.p EXCEPT !.learn_buffer = Append(@, negate(w.p.trail_lits[it + 1]))])))))

\* ------------------------------------------------------------------------
\* Propagator: installing the learnt clause and jumping back
\* ------------------------------------------------------------------------
\* the loop of p_target_level over learn_buffer from position i on
RECURSIVE p_target_level_from(_, _, _, _)
p_target_level_from(p, i, target_level, target_lit) ==
    IF i > Len(p.learn_buffer)
    THEN [target_level |-> target_level, target_lit |-> target_lit]
    ELSE LET l == p.learn_buffer[i]
             lvl == vs_level(p.variables[var(l)])
         IN  IF lvl > target_level
             THEN p_target_level_from(p, i + 1, lvl, l)
             ELSE p_target_level_from(p, i + 1, target_level, target_lit)

p_target_level(p) == p_target_level_from(p, 2, 0, p.learn_buffer[1])

\* the loop of p_jumpback_to_target that rolls back with report = true
RECURSIVE RollbackTo(_, _, _)
RollbackTo(p, tlvl, undone) ==
    IF Len(p.levels) > tlvl + 1
    THEN With(p_rollback_level(p, TRUE), LAMBDA r :
             RollbackTo(r.p, tlvl, undone \o r.undone))
    ELSE [p |-> p, undone |-> undone]

\* p_jumpback_to_target that reports the rollback of the current level too
p_jumpback_to_target_reports_all(p) ==
    With(p_target_level(p), LAMBDA t :
    With(RollbackTo(p, t.target_level, <<>>), LAMBDA r :
        [p |-> [r.p EXCEPT !.trail_queue_head = Len(r.p.trail_lits)],
         tlvl |-> t.target_level, tlit |-> t.target_lit, undone |-> r.undone]))

\* p_jumpback_to_target that stops one level above the target level
p_jumpback_to_target_stops_early(p) ==
    With(p_target_level(p), LAMBDA t :
    With(p_rollback_level(p, FALSE), LAMBDA r0 :
    With(RollbackTo(r0.p, t.target_level + 1, r0.undone), LAMBDA r :
        [p |-> [r.p EXCEPT !.trail_queue_head = Len(r.p.trail_lits)],
         tlvl |-> t.target_level, tlit |-> t.target_lit, undone |-> r.undone])))

p_jumpback_to_target(p) ==
    With(p_target_level(p), LAMBDA t :
    With(p_rollback_level(p, FALSE), LAMBDA r0 :
    With(RollbackTo(r0.p, t.target_level, r0.undone), LAMBDA r :
        [p |-> [r.p EXCEPT !.trail_queue_head = Len(r.p.trail_lits)],
         tlvl |-> t.target_level, tlit |-> t.target_lit, undone |-> r.undone])))

\* p_insert_conflict_clause that stores every literal of a learnt binary
\* clause as a unary clause too
p_insert_conflict_clause_binary_as_units(p) ==
    CASE Len(p.learn_buffer) = 1 ->
           [p |-> [p EXCEPT !.m_unary_clauses = Append(@, p.learn_buffer[1])],
            ref |-> NIL]
      [] Len(p.learn_buffer) = 2 ->
           LET l1 == p.learn_buffer[1]
               l2 == p.learn_buffer[2]
               b1 == [p.m_binary_clauses EXCEPT ![l1 + 1] = Append(@, l2)]
               b2 == [b1 EXCEPT ![l2 + 1] = Append(@, l1)]
           IN  [p |-> [p EXCEPT !.m_binary_clauses = b2,
                                !.m_unary_clauses = @ \o <<l1, l2>>],
                ref |-> NIL]
      [] OTHER ->
           [p |-> [p EXCEPT !.m_large_clause_db =
                       @ \o <<Len(p.learn_buffer)>> \o p.learn_buffer],
            ref |-> Len(p.m_large_clause_db) + 1]

p_insert_conflict_clause(p) ==
    CASE Len(p.learn_buffer) = 1 ->
           [p |-> [p EXCEPT !.m_unary_clauses = Append(@, p.learn_buffer[1])],
            ref |-> NIL]
      [] Len(p.learn_buffer) = 2 ->
           LET l1 == p.learn_buffer[1]
               l2 == p.learn_buffer[2]
               b1 == [p.m_binary_clauses EXCEPT ![l1 + 1] = Append(@, l2)]
               b2 == [b1 EXCEPT ![l2 + 1] = Append(@, l1)]
           IN  [p |-> [p EXCEPT !.m_binary_clauses = b2], ref |-> NIL]
      [] OTHER ->
           [p |-> [p EXCEPT !.m_large_clause_db =
                       @ \o <<Len(p.learn_buffer)>> \o p.learn_buffer],
            ref |-> Len(p.m_large_clause_db) + 1]

\* p_new_watch that leaves the literals of the clause where they are
p_new_watch_without_swap(p, learnt, target_lit, clause) ==
    LET ws1 == [p.watchers EXCEPT
                  ![learnt + 1] = Append(@, [blocker |-> target_lit, clause |-> clause])]
        ws2 == [ws1 EXCEPT
                  ![target_lit + 1] = Append(@, [blocker |-> learnt, clause |-> clause])]
    IN  [p EXCEPT !.watchers = ws2]

p_new_watch(p, learnt, target_lit, clause) ==
    LET lits == lits_of(p, clause)
        other == CHOOSE j \in 2..Len(lits) :
                    /\ lits[j] = target_lit
                    /\ \A k \in 2..(j - 1) : lits[k] # target_lit
        db == SwapAt(p.m_large_clause_db, clause + 2, clause + other)
        ws1 == [p.watchers EXCEPT
                  ![learnt + 1] = Append(@, [blocker |-> target_lit, clause |-> clause])]
        ws2 == [ws1 EXCEPT
                  ![target_lit + 1] = Append(@, [blocker |-> learnt, clause |-> clause])]
    IN  [p EXCEPT !.m_large_clause_db = db, !.watchers = ws2]

\* p_handle_conflict_clause that does not assert the learnt literal
p_handle_conflict_clause_no_assert(p) ==
    With(p_jumpback_to_target(p_insert_conflict_clause(p).p), LAMBDA jb :
        [p |-> [jb.p EXCEPT !.learn_buffer = <<>>], undone |-> jb.undone])

\* p_handle_conflict_clause that opens a level at the end of the trail after
\* the jump, and leaves the learnt literal unassigned
p_handle_conflict_clause_opens_level(p) ==
    With(p_handle_conflict_clause_no_assert(p), LAMBDA h :
        [p |-> [h.p EXCEPT !.levels = Append(@, LevelInfo(Len(h.p.trail_lits)))],
         undone |-> h.undone])

\* p_handle_conflict_clause; undone are the literals reported to the handler
p_handle_conflict_clause(p) ==
    With(p_insert_conflict_clause(p), LAMBDA ins :
    With(p_jumpback_to_target(ins.p), LAMBDA jb :
    With(jb.p.learn_buffer[1], LAMBDA learned :
    With(Len(jb.p.learn_buffer), LAMBDA len :
    With(CASE len = 1 -> p_assign_at(jb.p, jb.tlvl, learned, Unary(learned))
           [] len = 2 -> p_assign_at(jb.p, jb.tlvl, learned,
                                     Binary(learned, jb.p.learn_buffer[2]))
           [] OTHER -> p_new_watch(
                           p_assign_at(jb.p, jb.tlvl, learned, Clause(len, ins.ref)),
                           learned, jb.tlit, ins.ref), LAMBDA assigned :
        [p |-> [assigned EXCEPT !.learn_buffer = <<>>], undone |-> jb.undone])))))

\* handler notifications, in the order of the calls
Undone(lits) == [i \in 1..Len(lits) |-> [kind |-> "undone", lit |-> lits[i]]]

Forced(lits) == [i \in 1..Len(lits) |-> [kind |-> "forced", lit |-> lits[i]]]

\* resolve_conflicts that gives up when the propagation after the jump fails
resolve_conflicts_once(p, log) ==
    IF ~p.conflicting THEN [p |-> p, ret |-> TRUE, log |-> log]
    ELSE IF Len(p.levels) = 1 THEN [p |-> p, ret |-> FALSE, log |-> log]
    ELSE
      With(p_handle_conflict_clause(p_compute_conflict_clause(p)), LAMBDA h :
      With(propagate(p_reset_conflict(h.p)), LAMBDA r :
          [p |-> r.p, ret |-> r.ret,
           log |-> log \o Undone(h.undone) \o
                   Forced(SubSeq(r.p.trail_lits, h.p.trail_queue_head + 1,
                                 Len(r.p.trail_lits)))]))

\* resolve_conflicts that reports nothing undone after a round whose
\* propagation failed
RECURSIVE resolve_conflicts_silent_failed_round(_, _)
resolve_conflicts_silent_failed_round(p, log) ==
    IF ~p.conflicting THEN [p |-> p, ret |-> TRUE, log |-> log]
    ELSE IF Len(p.levels) = 1 THEN [p |-> p, ret |-> FALSE, log |-> log]
    ELSE
      With(p_handle_conflict_clause(p_compute_conflict_clause(p)), LAMBDA h :
      With(p_reset_conflict(h.p), LAMBDA q :
      With(propagate(q), LAMBDA r :
          IF ~r.ret
          THEN resolve_conflicts_silent_failed_round(
                   r.p, log \o Undone(h.undone))
          ELSE [p |-> r.p, ret |-> TRUE,
                log |-> log \o Undone(h.undone) \o
                        Forced(SubSeq(r.p.trail_lits, q.trail_queue_head + 1,
                                      Len(r.p.trail_lits)))])))

\* resolve_conflicts(handler): the new propagator, the return value and the
\* notifications the handler received
RECURSIVE resolve_conflicts(_, _)
resolve_conflicts(p, log) ==
    IF ~p.conflicting THEN [p |-> p, ret |-> TRUE, log |-> log]
    ELSE IF Len(p.levels) = 1 THEN [p |-> p, ret |-> FALSE, log |-> log]
    ELSE
      With(p_handle_conflict_clause(p_compute_conflict_clause(p)), LAMBDA h :
      With(p_reset_conflict(h.p), LAMBDA q :
      With(q.trail_queue_head, LAMBDA tsize :
      With(level_begin(q), LAMBDA lbegin :
      With(propagate(q), LAMBDA r :
          IF ~r.ret
          THEN resolve_conflicts(
                   r.p,
                   log \o Undone(h.undone) \o
                   Undone([k \in 1..(tsize - lbegin) |-> r.p.trail_lits[tsize + 1 - k]]))
          ELSE [p |-> r.p, ret |-> TRUE,
                log |-> log \o Undone(h.undone) \o
                        Forced(SubSeq(r.p.trail_lits, tsize + 1,
                                      Len(r.p.trail_lits)))])))))

\* ------------------------------------------------------------------------
\* Propagator: decisions
\* ------------------------------------------------------------------------
\* push_level that takes the number of the new level before it exists
push_level_at_old_level(p, decision) ==
    IF ~vs_is_open(p.variables[var(decision)])
    THEN [p |-> p, ret |-> FALSE, thrown |-> TRUE]
    ELSE With(propagate(
                  p_assign_at([p EXCEPT !.levels = Append(@, LevelInfo(Len(p.trail_lits)))],
                              Len(p.levels) - 1, decision, Decision)), LAMBDA r :
             [p |-> r.p, ret |-> r.ret, thrown |-> FALSE])

\* push_level that records the decision with the reason of a unary clause
push_level_with_unary_reason(p, decision) ==
    IF ~vs_is_open(p.variables[var(decision)])
    THEN [p |-> p, ret |-> FALSE, thrown |-> TRUE]
    ELSE With(propagate(
                  p_assign_at([p EXCEPT !.levels = Append(@, LevelInfo(Len(p.trail_lits)))],
                              Len(p.levels), decision, Unary(decision))), LAMBDA r :
             [p |-> r.p, ret |-> r.ret, thrown |-> FALSE])

\* push_level: thrown is set when std::invalid_argument is thrown
push_level(p, decision) ==
    IF ~vs_is_open(p.variables[var(decision)])
    THEN [p |-> p, ret |-> FALSE, thrown |-> TRUE]
    ELSE With(Len(p.trail_lits), LAMBDA tpos :
         With(Len(p.levels), LAMBDA new_level :
         With(propagate(
                  p_assign_at([p EXCEPT !.levels = Append(@, LevelInfo(tpos))],
                              new_level, decision, Decision)), LAMBDA r :
             [p |-> r.p, ret |-> r.ret, thrown |-> FALSE])))

\* pop_level that leaves the conflict information in place
pop_level_keeps_conflict(p) ==
    IF Len(p.levels) = 1
    THEN [p |-> p, thrown |-> TRUE]
    ELSE With(p_rollback_level(p, FALSE).p, LAMBDA q :
             [p |-> [q EXCEPT !.trail_queue_head = Len(q.trail_lits)],
              thrown |-> FALSE])

\* pop_level that leaves trail_queue_head where it is
pop_level_keeps_head(p) ==
    IF Len(p.levels) = 1
    THEN [p |-> p, thrown |-> TRUE]
    ELSE With(p_rollback_level(p, FALSE).p, LAMBDA q :
             [p |-> IF q.conflicting THEN p_reset_conflict(q) ELSE q,
              thrown |-> FALSE])

\* pop_level: thrown is set when std::invalid_argument is thrown
pop_level(p) ==
    IF Len(p.levels) = 1
    THEN [p |-> p, thrown |-> TRUE]
    ELSE With(p_rollback_level(p, FALSE).p, LAMBDA q :
         With([q EXCEPT !.trail_queue_head = Len(q.trail_lits)], LAMBDA q1 :
             [p |-> IF q1.conflicting THEN p_reset_conflict(q1) ELSE q1,
              thrown |-> FALSE]))

RECURSIVE reset_to_zero(_)
\* reset_to_zero: pop_level until level 0 is the current level
reset_to_zero(p) ==
    IF Len(p.levels) > 1 THEN reset_to_zero(pop_level(p).p) ELSE p

\* get_decisions: the trail entry at the begin of every level above level 0;
\* NIL stands for a read behind the end of the trail
get_decisions(p) ==
    [i \in 1..(Len(p.levels) - 1) |->
        IF p.levels[i + 1].trail_pos < Len(p.trail_lits)
        THEN p.trail_lits[p.levels[i + 1].trail_pos + 1]
        ELSE NIL]

\* extract_assignment: the bit vector as a function on 0..num_vars-1
extract_assignment(p) ==
    [v \in 0..(p.m_num_vars - 1) |->
        \E i \in 1..Len(p.trail_lits) :
           ~negative(p.trail_lits[i]) /\ var(p.trail_lits[i]) = v]

\* extract_assignment with its check: thrown is set when std::logic_error
\* is thrown
extract_assignment_checked(p) ==
    IF Len(p.trail_lits) # p.m_num_vars
    THEN [ret |-> <<>>, thrown |-> TRUE]
    ELSE [ret |-> extract_assignment(p), thrown |-> FALSE]

\* ------------------------------------------------------------------------
\* Propagator: decisions that lead to a literal or to the conflict
\* ------------------------------------------------------------------------
\* the loop over a reason that stamps the variable of every literal but
\* skip and appends the negated literal to learn_buffer
RECURSIVE p_queue_reason_lits(_, _, _, _, _)
p_queue_reason_lits(p, lits, j, skip, current) ==
    IF j > Len(lits) THEN p
    ELSE IF lits[j] = skip
         THEN p_queue_reason_lits(p, lits, j + 1, skip, current)
         ELSE p_queue_reason_lits(
                  [p EXCEPT !.variables[var(lits[j])] = vs_stamp_with(@, current),
                            !.learn_buffer = Append(@, negate(lits[j]))],
                  lits, j + 1, skip, current)

\* a loop over a reason that queues nothing
p_queue_no_lits(p, lits, j, skip, current) == p

\* the loop over a reason that does so only for the variables that do not
\* have the current stamp
RECURSIVE p_queue_unstamped_lits(_, _, _, _, _)
p_queue_unstamped_lits(p, lits, j, skip, current) ==
    IF j > Len(lits) THEN p
    ELSE IF lits[j] = skip \/ p.variables[var(lits[j])].stamp = current
         THEN p_queue_unstamped_lits(p, lits, j + 1, skip, current)
         ELSE p_queue_unstamped_lits(
                  [p EXCEPT !.variables[var(lits[j])] = vs_stamp_with(@, current),
                            !.learn_buffer = Append(@, negate(lits[j]))],
                  lits, j + 1, skip, current)

\* p_bfs_reasons, from position lbpos of learn_buffer
RECURSIVE p_bfs_reasons_from(_, _, _)
p_bfs_reasons_from(p, current_stamp, lbpos) ==
    IF lbpos >= Len(p.learn_buffer) THEN p
    ELSE With(p.learn_buffer[lbpos + 1], LAMBDA next :
         With(get_trail_index(p, next), LAMBDA tindex :
            IF p.trail_reasons[tindex + 1].reason_length = 0
            THEN p_bfs_reasons_from(
                     [p EXCEPT !.supporting_decision_buffer =
                                   Append(@, <<get_decision_level(p, next), next>>)],
                     current_stamp, lbpos + 1)
            ELSE p_bfs_reasons_from(
                     p_queue_unstamped_lits(p, reason_lits(p, p.trail_reasons[tindex + 1]),
                                            1, next, current_stamp),
                     current_stamp, lbpos + 1)))

p_bfs_reasons(p, current_stamp) == p_bfs_reasons_from(p, current_stamp, 0)

\* decisions_leading_to that only rejects open literals
decisions_leading_to_on_conflict(p, l) ==
    IF is_open(p, l)
    THEN [p |-> p, thrown |-> TRUE]
    ELSE [p |-> [p EXCEPT !.supporting_decision_buffer = <<>>], thrown |-> FALSE]

\* decisions_leading_to: thrown is set when std::logic_error is thrown; the
\* result is supporting_decision_buffer, a list of pairs <<level, literal>>
decisions_leading_to(p, l) ==
    IF p.conflicting \/ is_open(p, l)
    THEN [p |-> p, thrown |-> TRUE]
    ELSE With([p EXCEPT !.supporting_decision_buffer = <<>>], LAMBDA p0 :
         With(get_trail_index(p0, l), LAMBDA tindex :
            IF p0.trail_reasons[tindex + 1].reason_length = 0
            THEN [p |-> [p0 EXCEPT !.supporting_decision_buffer =
                                      <<<<get_decision_level(p0, l), l>>>>],
                  thrown |-> FALSE]
            ELSE With(p_increase_stamp(p0), LAMBDA p1 :
                 With(p_queue_reason_lits(p1, reason_lits(p1, p1.trail_reasons[tindex + 1]),
                                          1, l, p1.stamp_counter), LAMBDA p2 :
                    [p |-> [p_bfs_reasons(p2, p1.stamp_counter)
                               EXCEPT !.learn_buffer = <<>>],
                     thrown |-> FALSE]))))

\* decisions_leading_to_conflict: thrown is set when std::logic_error is
\* thrown
decisions_leading_to_conflict(p) ==
    IF ~p.conflicting
    THEN [p |-> p, thrown |-> TRUE]
    ELSE With(p_increase_stamp([p EXCEPT !.supporting_decision_buffer = <<>>]), LAMBDA p1 :
         With(p1.stamp_counter, LAMBDA current :
         With(p_queue_reason_lits(p1, reason_lits(p1, p1.conflict_reason), 1,
                                  p1.conflict_lit, current), LAMBDA p2 :
         With([p2 EXCEPT !.variables[var(p2.conflict_lit)] = vs_stamp_with(@, current)],
              LAMBDA p3 :
         With(p_queue_unstamped_lits(
                  p3, reason_lits(p3, get_reason(p3, negate(p3.conflict_lit))), 1,
                  NIL, current), LAMBDA p4 :
            [p |-> [p_bfs_reasons(p4, current) EXCEPT !.learn_buffer = <<>>],
             thrown |-> FALSE])))))

\* ------------------------------------------------------------------------
\* StampSet<ValueType, StampType>, as a record of its two members; value v
\* has its stamp at index v + 1
\* ------------------------------------------------------------------------
\* the number of values of StampType = std::uint16_t
StampTypeValues == 65536

\* StampSet(universe_size)
NewStampSet(universe_size) ==
    [m_stamps |-> [i \in 1..universe_size |-> 0], m_current_stamp |-> 1]

\* clear that restarts the epoch at a wrap-around and leaves the stamps
clear_keeps_stamps(s) ==
    IF (s.m_current_stamp + 1) % StampTypeValues = 0
    THEN [s EXCEPT !.m_current_stamp = 1]
    ELSE [s EXCEPT !.m_current_stamp = (@ + 1) % StampTypeValues]

clear(s) ==
    IF (s.m_current_stamp + 1) % StampTypeValues = 0
    THEN [m_stamps |-> [i \in 1..Len(s.m_stamps) |-> 0], m_current_stamp |-> 1]
    ELSE [s EXCEPT !.m_current_stamp = (@ + 1) % StampTypeValues]

insert(s, v) == [s EXCEPT !.m_stamps[v + 1] = s.m_current_stamp]

erase(s, v) == [s EXCEPT !.m_stamps[v + 1] = 0]

\* check_insert and check_erase: the new set and the returned value
check_insert(s, v) ==
    [s |-> [s EXCEPT !.m_stamps[v + 1] = s.m_current_stamp],
     ret |-> s.m_stamps[v + 1] # s.m_current_stamp]

check_erase(s, v) ==
    [s |-> [s EXCEPT !.m_stamps[v + 1] = 0],
     ret |-> s.m_stamps[v + 1] = s.m_current_stamp]

count(s, v) == s.m_stamps[v + 1] = s.m_current_stamp

contains(s, v) == count(s, v)

\* insert(begin, end)
RECURSIVE insert_range(_, _)
insert_range(s, values) ==
    IF values = <<>> THEN s
    ELSE insert_range(insert(s, Head(values)), Tail(values))

\* assign(begin, end)
assign(s, values) == insert_range(clear(s), values)

\* ------------------------------------------------------------------------
\* SubsumptionChecker, as a record of its members; clause c is at index
\* c + 1 of m_clauses and the watch list of literal l at index l + 1 of
\* m_watching_clauses. crashed is set when the checker has read the first
\* literal of an empty clause and the read has ended the program.
\* ------------------------------------------------------------------------
\* p_init_watches, from clause ci. cl[0] of an empty clause is a read past
\* the end of the vector: it ends the program (stale = NIL) or yields the
\* value stale
RECURSIVE p_init_watches_from(_, _, _)
p_init_watches_from(sc, ci, stale) ==
    IF ci >= Len(sc.m_clauses) \/ sc.crashed THEN sc
    ELSE With(sc.m_clauses[ci + 1], LAMBDA cl :
         With(IF cl = <<>> THEN stale ELSE cl[1], LAMBDA first :
            IF first = NIL
            THEN [sc EXCEPT !.crashed = TRUE]
            ELSE p_init_watches_from(
                     [sc EXCEPT !.m_watching_clauses[first + 1] = Append(@, ci)],
                     ci + 1, stale)))

\* SubsumptionChecker(clauses, n_all)
SubsumptionChecker(clauses, n_all, stale) ==
    p_init_watches_from(
        [m_nv |-> n_all,
         m_nl |-> 2 * n_all,
         m_clauses |-> clauses,
         m_in_clause |-> NewStampSet(2 * n_all),
         m_watching_clauses |-> [i \in 1..(2 * n_all) |-> <<>>],
         crashed |-> FALSE],
        0, stale)

\* a search that finds no literal outside m_in_clause
find_replacement_fails(sc, other_lits) == 0

\* std::find_if over other_lits for a literal that is not in m_in_clause:
\* its position, 0 for other_lits.end()
find_replacement(sc, other_lits) ==
    IF \E k \in 1..Len(other_lits) : ~count(sc.m_in_clause, other_lits[k])
    THEN CHOOSE k \in 1..Len(other_lits) :
            /\ ~count(sc.m_in_clause, other_lits[k])
            /\ \A h \in 1..(k - 1) : count(sc.m_in_clause, other_lits[h])
    ELSE 0

\* the loop of p_walk_watch_list over watch_list from position in, with the
\* entries kept so far in out
RECURSIVE p_walk_watch_list_from(_, _, _, _, _, _)
p_walk_watch_list_from(sc, index, l, watch_list, in, out) ==
    IF in > Len(watch_list)
    THEN [sc |-> [sc EXCEPT !.m_watching_clauses[l + 1] = out], ret |-> FALSE]
    ELSE With(watch_list[in], LAMBDA cother :
         With(sc.m_clauses[cother + 1], LAMBDA other_lits :
            IF cother = index
            THEN p_walk_watch_list_from(sc, index, l, watch_list, in + 1,
                                        Append(out, cother))
            ELSE IF other_lits = <<>>
            THEN p_walk_watch_list_from(sc, index, l, watch_list, in + 1, out)
            ELSE With(find_replacement(sc, other_lits), LAMBDA replacement :
                 IF replacement = 0
                 THEN [sc |-> [sc EXCEPT !.m_watching_clauses[l + 1] =
                                   out \o SubSeq(watch_list, in, Len(watch_list))],
                       ret |-> TRUE]
                 ELSE p_walk_watch_list_from(
                          [sc EXCEPT !.m_watching_clauses[other_lits[replacement] + 1] =
                                        Append(@, cother)],
                          index, l, watch_list, in + 1, out))))

p_walk_watch_list(sc, index, l) ==
    p_walk_watch_list_from(sc, index, l, sc.m_watching_clauses[l + 1], 1, <<>>)

\* the loop of p_empty_if_subsumed over the literals of the clause
RECURSIVE p_empty_if_subsumed_from(_, _, _, _)
p_empty_if_subsumed_from(sc, index, clause, k) ==
    IF k > Len(clause) THEN sc
    ELSE With(p_walk_watch_list(sc, index, clause[k]), LAMBDA r :
            IF r.ret
            THEN [r.sc EXCEPT !.m_clauses[index + 1] = <<>>]
            ELSE p_empty_if_subsumed_from(r.sc, index, clause, k + 1))

\* p_empty_if_subsumed that takes every clause as subsumed by itself
p_empty_if_subsumed_by_itself(sc, index) ==
    [sc EXCEPT !.m_clauses[index + 1] = <<>>]

p_empty_if_subsumed(sc, index) ==
    p_empty_if_subsumed_from(
        [sc EXCEPT !.m_in_clause = assign(@, sc.m_clauses[index + 1])],
        index, sc.m_clauses[index + 1], 1)

\* the loop of remove_subsumed over the clauses
RECURSIVE remove_subsumed_from(_, _)
remove_subsumed_from(sc, c) ==
    IF c >= Len(sc.m_clauses) THEN sc
    ELSE remove_subsumed_from(p_empty_if_subsumed(sc, c), c + 1)

\* remove_subsumed that stops at the first clause it finds subsumed
RECURSIVE remove_subsumed_until_first(_, _)
remove_subsumed_until_first(sc, c) ==
    IF c >= Len(sc.m_clauses) THEN sc
    ELSE With(p_empty_if_subsumed(sc, c), LAMBDA q :
            IF q.m_clauses[c + 1] # sc.m_clauses[c + 1] THEN q
            ELSE remove_subsumed_until_first(q, c + 1))

remove_subsumed_first_only(sc) ==
    [remove_subsumed_until_first(sc, 0) EXCEPT
        !.m_clauses = SelectSeq(@, LAMBDA cl : cl # <<>>)]

remove_subsumed(sc) ==
    [remove_subsumed_from(sc, 0) EXCEPT
        !.m_clauses = SelectSeq(@, LAMBDA cl : cl # <<>>)]

\* eliminate_subsumed(clauses, n_all): the clause list afterwards and whether
\* the call has ended the program
eliminate_subsumed(clauses, n_all, stale) ==
    With(SubsumptionChecker(clauses, n_all, stale), LAMBDA sc :
       IF sc.crashed
       THEN [clauses |-> clauses, crashed |-> TRUE]
       ELSE [clauses |-> remove_subsumed(sc).m_clauses, crashed |-> FALSE])

\* ------------------------------------------------------------------------
\* ReducedPartialExtractor
\* ------------------------------------------------------------------------
FIXED_TRUE == NIL - 1

FIXED_FALSE == NIL - 2

\* a default-constructed extractor
NewExtractor ==
    [m_old_lit_is_true |-> <<>>, m_old_lit_is_false |-> <<>>,
     m_new_to_old |-> <<>>, m_old_to_new |-> <<>>,
     m_reduced_clauses |-> <<>>, m_new_clause_buffer |-> <<>>]

reduced_num_vars(e) == Len(e.m_new_to_old) \div 2

translate_to_old(e, lnew) == e.m_new_to_old[lnew + 1]

translate_to_new(e, old) == e.m_old_to_new[old + 1]

p_init_extraction(e, p) ==
    [e EXCEPT
       !.m_old_lit_is_false =
           [i \in 1..(2 * p.m_num_vars) |-> negate(i - 1) \in Range(p.trail_lits)],
       !.m_old_lit_is_true =
           [i \in 1..(2 * p.m_num_vars) |-> (i - 1) \in Range(p.trail_lits)],
       !.m_new_to_old = <<>>,
       !.m_old_to_new = <<>>,
       !.m_reduced_clauses = <<>>]

\* the loop of p_make_literal_maps at the literal l
RECURSIVE p_make_literal_maps_from(_, _, _)
p_make_literal_maps_from(e, l, nlnew) ==
    IF l >= Len(e.m_old_lit_is_true) THEN e
    ELSE IF e.m_old_lit_is_true[l + 1]
    THEN p_make_literal_maps_from(
             [e EXCEPT !.m_old_to_new = @ \o <<FIXED_TRUE, FIXED_FALSE>>],
             l + 2, nlnew)
    ELSE IF e.m_old_lit_is_false[l + 1]
    THEN p_make_literal_maps_from(
             [e EXCEPT !.m_old_to_new = @ \o <<FIXED_FALSE, FIXED_TRUE>>],
             l + 2, nlnew)
    ELSE p_make_literal_maps_from(
             [e EXCEPT !.m_old_to_new = @ \o <<nlnew, nlnew + 1>>,
                       !.m_new_to_old = @ \o <<l, l + 1>>],
             l + 2, nlnew + 2)

p_make_literal_maps(e) == p_make_literal_maps_from(e, 0, 0)

\* the inner loop of p_translate_binaries over the partners of l1, at
\* position j
RECURSIVE p_translate_partners(_, _, _, _)
p_translate_partners(e, l1, partners, j) ==
    IF j > Len(partners) THEN e
    ELSE IF e.m_old_lit_is_true[partners[j] + 1]
    THEN p_translate_partners(e, l1, partners, j + 1)
    ELSE IF l1 < partners[j]
    THEN p_translate_partners(
             [e EXCEPT !.m_reduced_clauses =
                 Append(@, <<e.m_old_to_new[l1 + 1],
                             e.m_old_to_new[partners[j] + 1]>>)],
             l1, partners, j + 1)
    ELSE p_translate_partners(e, l1, partners, j + 1)

\* the outer loop of p_translate_binaries at the literal l1
RECURSIVE p_translate_binaries_from(_, _, _)
p_translate_binaries_from(e, p, l1) ==
    IF l1 >= 2 * p.m_num_vars THEN e
    ELSE IF e.m_old_lit_is_false[l1 + 1] \/ e.m_old_lit_is_true[l1 + 1]
    THEN p_translate_binaries_from(e, p, l1 + 1)
    ELSE p_translate_binaries_from(
             p_translate_partners(e, l1, binary_partners_of(p, l1), 1), p, l1 + 1)

p_translate_binaries(e, p) == p_translate_binaries_from(e, p, 0)

\* the loop of p_translate_clause at position j; ret tells whether the loop
\* ran to its end
RECURSIVE p_translate_clause_from(_, _, _)
p_translate_clause_from(e, literals, j) ==
    IF j > Len(literals) THEN [e |-> e, ret |-> TRUE]
    ELSE IF e.m_old_lit_is_true[literals[j] + 1] THEN [e |-> e, ret |-> FALSE]
    ELSE IF e.m_old_lit_is_false[literals[j] + 1]
    THEN p_translate_clause_from(e, literals, j + 1)
    ELSE p_translate_clause_from(
             [e EXCEPT !.m_new_clause_buffer =
                 Append(@, e.m_old_to_new[literals[j] + 1])],
             literals, j + 1)

p_translate_clause(e, literals) ==
    With(p_translate_clause_from([e EXCEPT !.m_new_clause_buffer = <<>>],
                                 literals, 1), LAMBDA r :
        IF r.ret
        THEN [r.e EXCEPT !.m_reduced_clauses = Append(@, r.e.m_new_clause_buffer)]
        ELSE r.e)

\* the loop of p_translate_clauses over the long clauses, at cref
RECURSIVE p_translate_long_from(_, _, _)
p_translate_long_from(e, p, cref) ==
    IF cref >= longer_clause_end(p) THEN e
    ELSE p_translate_long_from(p_translate_clause(e, lits_of(p, cref)), p,
                               next_clause(p, cref))

p_translate_clauses(e, p) ==
    p_translate_long_from(p_translate_binaries(e, p), p, first_longer_clause)

\* the extractor before the call of eliminate_subsumed in extract
extract_translated(e, p) ==
    p_translate_clauses(p_make_literal_maps(p_init_extraction(e, p)), p)

\* extract(propagator)
extract(e, p) ==
    With(extract_translated(e, p), LAMBDA t :
    With(eliminate_subsumed(t.m_reduced_clauses, reduced_num_vars(t), NIL), LAMBDA r :
        [e |-> [t EXCEPT !.m_reduced_clauses = r.clauses], crashed |-> r.crashed]))

\* ------------------------------------------------------------------------
\* The formulas the propagator is constructed from
\* ------------------------------------------------------------------------
\* Each formula is the list of clauses handed to add_clause, in this order.
\*  1: satisfiable, 4 variables; its conflicts are resolved by unary, binary
\*     and long learnt clauses, by jumps over several levels and by more than
\*     one round of learning
\*  2: unsatisfiable, 4 variables; resolve_conflicts fails after several rounds
\*  3: satisfiable, 4 variables; jumps back to levels above 0
\*  4: unsatisfiable, 3 variables
\*  5: two contradicting unary clauses
\*  6: a long clause that is violated by the unary clauses
\*  7: binary clauses that are violated by a unary clause
\*  8: unary, binary and long clauses that fix every variable at level 0,
\*     with a repeated literal and with clauses that hold a literal and its
\*     negation
Formulas ==
    << << <<0, 2, 5, 7>>, <<1, 3, 7>>, <<1, 2, 5, 6>>, <<0, 6>>, <<3, 6>>,
          <<0, 5>>, <<2, 7>> >>,
       << <<0, 4>>, <<0, 5>>, <<2, 7>>, <<3, 4>>, <<1, 2, 4>>, <<1, 5, 6>>,
          <<3, 7>>, <<1, 3>> >>,
       << <<0, 3, 7>>, <<0, 2, 4>>, <<0, 5>>, <<1, 2>>, <<1, 3>> >>,
       << <<0, 3>>, <<1, 2>>, <<1, 2, 5>>, <<1, 3, 5>>, <<3, 4>>, <<0, 2>> >>,
       << <<0>>, <<1>> >>,
       << <<1>>, <<3>>, <<5>>, <<0, 2, 4>> >>,
       << <<0>>, <<1, 2>>, <<1, 3>> >>,
       << <<1>>, <<3>>, <<0, 2, 4>>, <<5, 6>>, <<6, 6, 0>>, <<2, 3>>,
          <<0, 2, 3>> >>,
       << <<3, 4>>, <<0, 3>>, <<1, 3, 5, 8>>, <<0, 8>>, <<2, 6>> >> >>

\* the ModelBuilder after add_clause was called for every clause of a formula
BuildModel(formula) == AddClauses(NewModel, formula)

\* ------------------------------------------------------------------------
\* State
\* ------------------------------------------------------------------------
VARIABLES
    \* Propagator: formula data
    m_unary_clauses, m_binary_clauses, m_large_clause_db, m_num_vars,
    \* Propagator: variable/literal state
    variables, watchers,
    \* Propagator: trail
    trail_lits, trail_reasons, levels, trail_queue_head,
    \* Propagator: conflict information and buffers
    conflict_reason, conflict_lit, stamp_counter, conflicting, learn_buffer,
    supporting_decision_buffer,
    \* the ModelBuilder the propagator was constructed from
    model,
    \* the last public call: name, argument, return value, whether it threw,
    \* and the current level and conflict flag when it was made
    call,
    \* the notifications the AssignmentHandler got in the last resolve_conflicts
    handler,
    \* trail, reasons and level stack before the last push_level, kept while
    \* the last call is that push_level or the pop_level directly after it
    pushed_from,
    \* number of public calls made so far
    ncalls,
    \* the clause list handed to eliminate_subsumed
    clauses,
    \* a StampSet on its own, and the elements inserted and not erased since
    \* its last clear
    stamp_set, members,
    \* the public calls made so far on the propagator of the Waerden test case,
    \* each as <<name, argument>>
    history,
    \* a ReducedPartialExtractor
    extractor

propagator_vars ==
    <<m_unary_clauses, m_binary_clauses, m_large_clause_db, m_num_vars,
      variables, watchers, trail_lits, trail_reasons, levels, trail_queue_head,
      conflict_reason, conflict_lit, stamp_counter, conflicting, learn_buffer,
      supporting_decision_buffer>>

\* the objects that are not the propagator or its ModelBuilder
other_vars == <<clauses, stamp_set, members, history, extractor>>

vars == <<propagator_vars, model, call, handler, pushed_from, ncalls, other_vars>>

\* no clause list and no StampSet are in use
NoOtherObjects ==
    /\ clauses = <<>>
    /\ stamp_set = NewStampSet(0)
    /\ members = {}
    /\ history = <<>>
    /\ extractor = NewExtractor

\* the propagator as one value
Self ==
    [m_unary_clauses |-> m_unary_clauses,
     m_binary_clauses |-> m_binary_clauses,
     m_large_clause_db |-> m_large_clause_db,
     m_num_vars |-> m_num_vars,
     variables |-> variables,
     watchers |-> watchers,
     trail_lits |-> trail_lits,
     trail_reasons |-> trail_reasons,
     levels |-> levels,
     trail_queue_head |-> trail_queue_head,
     conflict_reason |-> conflict_reason,
     conflict_lit |-> conflict_lit,
     stamp_counter |-> stamp_counter,
     conflicting |-> conflicting,
     learn_buffer |-> learn_buffer,
     supporting_decision_buffer |-> supporting_decision_buffer]

\* the propagator is q
Is(q) ==
    /\ m_unary_clauses = q.m_unary_clauses
    /\ m_binary_clauses = q.m_binary_clauses
    /\ m_large_clause_db = q.m_large_clause_db
    /\ m_num_vars = q.m_num_vars
    /\ variables = q.variables
    /\ watchers = q.watchers
    /\ trail_lits = q.trail_lits
    /\ trail_reasons = q.trail_reasons
    /\ levels = q.levels
    /\ trail_queue_head = q.trail_queue_head
    /\ conflict_reason = q.conflict_reason
    /\ conflict_lit = q.conflict_lit
    /\ stamp_counter = q.stamp_counter
    /\ conflicting = q.conflicting
    /\ learn_buffer = q.learn_buffer
    /\ supporting_decision_buffer = q.supporting_decision_buffer

\* the propagator becomes q
Becomes(q) ==
    /\ m_unary_clauses' = q.m_unary_clauses
    /\ m_binary_clauses' = q.m_binary_clauses
    /\ m_large_clause_db' = q.m_large_clause_db
    /\ m_num_vars' = q.m_num_vars
    /\ variables' = q.variables
    /\ watchers' = q.watchers
    /\ trail_lits' = q.trail_lits
    /\ trail_reasons' = q.trail_reasons
    /\ levels' = q.levels
    /\ trail_queue_head' = q.trail_queue_head
    /\ conflict_reason' = q.conflict_reason
    /\ conflict_lit' = q.conflict_lit
    /\ stamp_counter' = q.stamp_counter
    /\ conflicting' = q.conflicting
    /\ learn_buffer' = q.learn_buffer
    /\ supporting_decision_buffer' = q.supporting_decision_buffer

NoSnapshot == [taken |-> FALSE, trail_lits |-> <<>>, trail_reasons |-> <<>>,
               levels |-> <<>>]

Called(name, arg, ret, thrown) ==
    [name |-> name, arg |-> arg, ret |-> ret, thrown |-> thrown,
     level |-> Len(levels) - 1, conflicting |-> conflicting]

\* ------------------------------------------------------------------------
\* Init: a propagator directly after Propagator(model)
\* ------------------------------------------------------------------------
Init ==
    \E f \in 1..Len(Formulas) :
       /\ model = BuildModel(Formulas[f])
       /\ Is(NewPropagator(BuildModel(Formulas[f])))
       /\ call = [name |-> "Propagator", arg |-> NIL, ret |-> TRUE, thrown |-> FALSE,
                  level |-> 0, conflicting |-> FALSE]
       /\ handler = <<>>
       /\ pushed_from = NoSnapshot
       /\ ncalls = 0
       /\ NoOtherObjects

\* ------------------------------------------------------------------------
\* Actions: one per public call
\* ------------------------------------------------------------------------
\* push_level(decision) on a propagator that is not conflicting
PushLevel(decision) ==
    /\ ncalls < MaxCalls
    /\ ~conflicting
    /\ LET r == push_level(Self, decision)
       IN  /\ Becomes(r.p)
           /\ call' = Called("push_level", decision, r.ret, r.thrown)
           /\ pushed_from' = IF r.thrown THEN NoSnapshot
                             ELSE [taken |-> TRUE, trail_lits |-> trail_lits,
                                   trail_reasons |-> trail_reasons, levels |-> levels]
    /\ handler' = <<>>
    /\ ncalls' = ncalls + 1
    /\ UNCHANGED <<model, other_vars>>

\* pop_level()
PopLevel ==
    /\ ncalls < MaxCalls
    /\ LET r == pop_level(Self)
       IN  /\ Becomes(r.p)
           /\ call' = Called("pop_level", NIL, TRUE, r.thrown)
           /\ pushed_from' = IF call.name = "push_level" /\ ~r.thrown
                             THEN pushed_from ELSE NoSnapshot
    /\ handler' = <<>>
    /\ ncalls' = ncalls + 1
    /\ UNCHANGED <<model, other_vars>>

\* resolve_conflicts(handler)
ResolveConflicts ==
    /\ ncalls < MaxCalls
    /\ LET r == resolve_conflicts(Self, <<>>)
       IN  /\ Becomes(r.p)
           /\ call' = Called("resolve_conflicts", NIL, r.ret, FALSE)
           /\ handler' = r.log
    /\ pushed_from' = NoSnapshot
    /\ ncalls' = ncalls + 1
    /\ UNCHANGED <<model, other_vars>>

Next ==
    \/ \E decision \in 0..(2 * m_num_vars - 1) : PushLevel(decision)
    \/ PopLevel
    \/ ResolveConflicts

Spec == Init /\ [][Next]_vars

\* ------------------------------------------------------------------------
\* Callers that also call the queries
\* ------------------------------------------------------------------------
\* extract_assignment()
ExtractAssignment ==
    /\ ncalls < MaxCalls
    /\ LET r == extract_assignment_checked(Self)
       IN  call' = Called("extract_assignment", NIL, r.ret, r.thrown)
    /\ pushed_from' = NoSnapshot
    /\ handler' = <<>>
    /\ ncalls' = ncalls + 1
    /\ UNCHANGED <<propagator_vars, model, other_vars>>

\* decisions_leading_to(l)
DecisionsLeadingTo(l) ==
    /\ ncalls < MaxCalls
    /\ LET r == decisions_leading_to(Self, l)
       IN  /\ Becomes(r.p)
           /\ call' = Called("decisions_leading_to", l, TRUE, r.thrown)
    /\ pushed_from' = NoSnapshot
    /\ handler' = <<>>
    /\ ncalls' = ncalls + 1
    /\ UNCHANGED <<model, other_vars>>

\* decisions_leading_to_conflict(); on a conflict found by the constructor
\* among the unary and binary clauses conflict_lit is NIL and the call indexes
\* variables with var(NIL): these callers do not make that call
DecisionsLeadingToConflict ==
    /\ ncalls < MaxCalls
    /\ ~conflicting \/ conflict_lit # NIL
    /\ LET r == decisions_leading_to_conflict(Self)
       IN  /\ Becomes(r.p)
           /\ call' = Called("decisions_leading_to_conflict", NIL, TRUE, r.thrown)
    /\ pushed_from' = NoSnapshot
    /\ handler' = <<>>
    /\ ncalls' = ncalls + 1
    /\ UNCHANGED <<model, other_vars>>

NextQueries ==
    /\ ncalls < MaxQueryCalls
    /\ \/ \E decision \in 0..(2 * m_num_vars - 1) : PushLevel(decision)
       \/ PopLevel
       \/ ResolveConflicts
       \/ ExtractAssignment
       \/ \E l \in 0..(2 * m_num_vars - 1) : DecisionsLeadingTo(l)
       \/ DecisionsLeadingToConflict

SpecQueries == Init /\ [][NextQueries]_vars

\* ------------------------------------------------------------------------
\* A ModelBuilder on its own: the calls that build a model
\* ------------------------------------------------------------------------
\* the ranges handed to add_clause(range): the empty range, tautologies with
\* and without the smallest literal, repeated literals, one clause for each
\* clause store
ClauseArgs ==
    { <<>>, <<0, 1>>, <<0, 2, 3>>, <<5, 1, 4>>, <<3>>, <<2, 2>>, <<4, 0>>,
      <<2, 0, 2>>, <<4, 2, 0>>, <<3, 5, 1, 3>> }

\* a default-constructed ModelBuilder; the propagator variables hold a
\* propagator of the model without clauses and are not touched
InitBuilder ==
    /\ model = NewModel
    /\ Is(NewPropagator(NewModel))
    /\ call = [name |-> "ModelBuilder", arg |-> NIL, ret |-> TRUE, thrown |-> FALSE,
               level |-> 0, conflicting |-> FALSE]
    /\ handler = <<>>
    /\ pushed_from = NoSnapshot
    /\ ncalls = 0
    /\ NoOtherObjects

\* what a call on the builder leaves alone
BuilderCall ==
    /\ ncalls < MaxBuilderCalls
    /\ ncalls' = ncalls + 1
    /\ UNCHANGED <<propagator_vars, handler, pushed_from, other_vars>>

\* add_variable()
AddVariable ==
    /\ BuilderCall
    /\ model.m_current_lit <= MaxLit
    /\ model' = add_variable(model).m
    /\ call' = Called("add_variable", NIL, add_variable(model).ret, FALSE)

\* reserve_variables(n)
ReserveVariables(n) ==
    /\ BuilderCall
    /\ model' = reserve_variables(model, n)
    /\ call' = Called("reserve_variables", n, TRUE, FALSE)

\* add_literal(l)
AddLiteral(l) ==
    /\ BuilderCall
    /\ Len(model.m_current_clause_buffer) < MaxBufferLen
    /\ model' = add_literal(model, l)
    /\ call' = Called("add_literal", l, TRUE, FALSE)

\* finalize_clause()
FinalizeClause ==
    /\ BuilderCall
    /\ model' = finalize_clause(model).m
    /\ call' = Called("finalize_clause", NIL, TRUE, finalize_clause(model).thrown)

\* add_clause(clause)
AddClause(clause) ==
    /\ BuilderCall
    /\ Len(model.m_current_clause_buffer) + Len(clause) <= MaxBufferLen
    /\ model' = add_clause(model, clause).m
    /\ call' = Called("add_clause", clause, TRUE, add_clause(model, clause).thrown)

NextBuilder ==
    \/ AddVariable
    \/ \E n \in 1..((MaxLit + 1) \div 2) : ReserveVariables(n)
    \/ \E l \in 0..MaxLit : AddLiteral(l)
    \/ FinalizeClause
    \/ \E clause \in ClauseArgs : AddClause(clause)

SpecBuilder == InitBuilder /\ [][NextBuilder]_vars

\* ------------------------------------------------------------------------
\* A clause list on its own: eliminate_subsumed
\* ------------------------------------------------------------------------
\* the clauses the lists are made of: the empty clause, unit clauses, clauses
\* that subsume others, the same clause with its literals in another order
ClausePool ==
    { <<>>, <<0>>, <<0, 2>>, <<2, 0>>, <<4, 0, 2>>, <<1, 3>>, <<3, 5, 1>> }

\* the lists of at most MaxClauses clauses of the pool
ClauseLists ==
    UNION {[1..k -> ClausePool] : k \in 0..MaxClauses}

InitSubsumed ==
    /\ clauses \in ClauseLists
    /\ stamp_set = NewStampSet(0)
    /\ members = {}
    /\ history = <<>>
    /\ extractor = NewExtractor
    /\ model = NewModel
    /\ Is(NewPropagator(NewModel))
    /\ call = [name |-> "clauses", arg |-> NIL, ret |-> TRUE, thrown |-> FALSE,
               level |-> 0, conflicting |-> FALSE]
    /\ handler = <<>>
    /\ pushed_from = NoSnapshot
    /\ ncalls = 0

\* eliminate_subsumed(clauses, NumSubsumedVars); the argument of the call
\* record is the list before the call and its return value tells whether the
\* call has returned. No call follows one that has ended the program.
\* A list without an empty clause has no read past the end of a clause, and
\* one outcome.
EliminateSubsumed(stale) ==
    /\ ncalls < MaxEliminations
    /\ call.ret
    /\ stale # NIL => \E i \in 1..Len(clauses) : clauses[i] = <<>>
    /\ LET r == eliminate_subsumed(clauses, NumSubsumedVars, stale)
       IN  /\ clauses' = r.clauses
           /\ call' = Called("eliminate_subsumed", clauses, ~r.crashed, FALSE)
    /\ ncalls' = ncalls + 1
    /\ UNCHANGED <<propagator_vars, model, handler, pushed_from, stamp_set, members, history,
                 extractor>>

NextSubsumed ==
    \E stale \in {NIL} \cup 0..(2 * NumSubsumedVars - 1) : EliminateSubsumed(stale)

SpecSubsumed == InitSubsumed /\ [][NextSubsumed]_vars

\* ------------------------------------------------------------------------
\* Callers that also call push_level on a conflicting propagator
\* ------------------------------------------------------------------------
\* push_level(decision) on a propagator that is conflicting
PushLevelWhileConflicting(decision) ==
    /\ ncalls < MaxCalls
    /\ conflicting
    /\ LET r == push_level(Self, decision)
       IN  /\ Becomes(r.p)
           /\ call' = Called("push_level", decision, r.ret, r.thrown)
    /\ pushed_from' = NoSnapshot
    /\ handler' = <<>>
    /\ ncalls' = ncalls + 1
    /\ UNCHANGED <<model, other_vars>>

\* p_compute_conflict_clause finds a literal to stop at: some literal of the
\* conflict reason is assigned above level 0, so that p_stamp_and_count
\* stamps a variable of the trail
ConflictAboveRoot ==
    \E i \in 1..Len(reason_lits(Self, conflict_reason)) :
       get_decision_level(Self, reason_lits(Self, conflict_reason)[i]) >= 1

\* resolve_conflicts(handler), called when there is no conflict, at level 0,
\* or on a conflict with a literal above level 0. On a conflict of level 0
\* with a level pushed on top of it, the loops of p_compute_conflict_clause
\* step below the first trail entry; these callers do not make that call.
ResolveConflictsAboveRoot ==
    /\ ~conflicting \/ Len(levels) = 1 \/ ConflictAboveRoot
    /\ ResolveConflicts

NextMisuse ==
    \/ \E decision \in 0..(2 * m_num_vars - 1) : PushLevel(decision)
    \/ \E decision \in 0..(2 * m_num_vars - 1) : PushLevelWhileConflicting(decision)
    \/ PopLevel
    \/ ResolveConflictsAboveRoot

SpecMisuse == Init /\ [][NextMisuse]_vars

\* ------------------------------------------------------------------------
\* Callers that also call reset_to_zero and propagate
\* ------------------------------------------------------------------------
\* reset_to_zero()
ResetToZero ==
    /\ ncalls < MaxCalls
    /\ Becomes(reset_to_zero(Self))
    /\ call' = Called("reset_to_zero", NIL, TRUE, FALSE)
    /\ pushed_from' = NoSnapshot
    /\ handler' = <<>>
    /\ ncalls' = ncalls + 1
    /\ UNCHANGED <<model, other_vars>>

\* propagate()
Propagate ==
    /\ ncalls < MaxCalls
    /\ LET r == propagate(Self)
       IN  /\ Becomes(r.p)
           /\ call' = Called("propagate", NIL, r.ret, FALSE)
    /\ pushed_from' = NoSnapshot
    /\ handler' = <<>>
    /\ ncalls' = ncalls + 1
    /\ UNCHANGED <<model, other_vars>>

\* callers that keep to the preconditions
NextAllCalls ==
    \/ \E decision \in 0..(2 * m_num_vars - 1) : PushLevel(decision)
    \/ PopLevel
    \/ ResetToZero
    \/ Propagate
    \/ ResolveConflicts

SpecAllCalls == Init /\ [][NextAllCalls]_vars

\* callers that also call push_level on a conflicting propagator
NextAllCallsMisuse ==
    \/ \E decision \in 0..(2 * m_num_vars - 1) : PushLevel(decision)
    \/ \E decision \in 0..(2 * m_num_vars - 1) : PushLevelWhileConflicting(decision)
    \/ PopLevel
    \/ ResetToZero
    \/ Propagate
    \/ ResolveConflictsAboveRoot

SpecAllCallsMisuse == Init /\ [][NextAllCallsMisuse]_vars

\* ------------------------------------------------------------------------
\* Callers that extract the reduced formula
\* ------------------------------------------------------------------------
\* every clause that extract hands to eliminate_subsumed has two or more
\* literals and no FIXED_TRUE or FIXED_FALSE among them: the assertion of
\* p_translate_clause holds and eliminate_subsumed indexes its watch lists
\* with literals of the reduced formula only
TranslatedWithinRange ==
    With(extract_translated(extractor, Self).m_reduced_clauses, LAMBDA cs :
        \A i \in 1..Len(cs) :
           /\ Len(cs[i]) >= 2
           /\ \A k \in 1..Len(cs[i]) : cs[i][k] >= 0)

\* extract(propagator) on a propagator that is not conflicting; these callers
\* do not make a call that fails the assertion or leaves the watch lists
Extract ==
    /\ ncalls < MaxCalls
    /\ ~conflicting
    /\ TranslatedWithinRange
    /\ LET r == extract(extractor, Self)
       IN  /\ extractor' = r.e
           /\ call' = Called("extract", NIL, ~r.crashed, FALSE)
    /\ pushed_from' = NoSnapshot
    /\ handler' = <<>>
    /\ ncalls' = ncalls + 1
    /\ UNCHANGED <<propagator_vars, model, clauses, stamp_set, members, history>>

NextExtract ==
    /\ ncalls < MaxExtractCalls
    /\ \/ \E decision \in 0..(2 * m_num_vars - 1) : PushLevel(decision)
       \/ \E decision \in 0..(2 * m_num_vars - 1) : PushLevelWhileConflicting(decision)
       \/ PopLevel
       \/ ResolveConflictsAboveRoot
       \/ Extract

SpecExtract == Init /\ [][NextExtract]_vars

\* the same callers without push_level on a conflicting propagator
NextExtractLegal ==
    /\ ncalls < MaxExtractCalls
    /\ \/ \E decision \in 0..(2 * m_num_vars - 1) : PushLevel(decision)
       \/ PopLevel
       \/ ResolveConflicts
       \/ Extract

SpecExtractLegal == Init /\ [][NextExtractLegal]_vars

\* ------------------------------------------------------------------------
\* The test case waerden(3,3;9): the propagator of the formula of
\* waerden33(9) with the unary clause (not v1)
\* ------------------------------------------------------------------------
\* the n of the test case
WaerdenN == 9

\* vars[i]: the i-th variable handed out by add_variable()
WaerdenVar(i) == 2 * (i - 1)

RECURSIVE AddVariables(_, _)
AddVariables(m, k) == IF k = 0 THEN m ELSE AddVariables(add_variable(m).m, k - 1)

\* the clauses added by the inner loop of waerden33(n) for one distance:
\* for each i, the clause of the three variables and the clause of their
\* negations
waerden33_distance(n, distance) ==
    [k \in 1..(2 * (n - 2 * distance)) |->
        LET i == (k + 1) \div 2
        IN  IF k % 2 = 1
            THEN <<WaerdenVar(i), WaerdenVar(i + distance),
                   WaerdenVar(i + 2 * distance)>>
            ELSE <<negate(WaerdenVar(i)), negate(WaerdenVar(i + distance)),
                   negate(WaerdenVar(i + 2 * distance))>>]

\* the clauses added by the outer loop of waerden33(n), from the given
\* distance on
RECURSIVE waerden33_from(_, _)
waerden33_from(n, distance) ==
    IF 2 * distance > n - 1 THEN <<>>
    ELSE waerden33_distance(n, distance) \o waerden33_from(n, distance + 1)

waerden33(n) == AddClauses(AddVariables(NewModel, n), waerden33_from(n, 1))

\* the model of the test case: model.add_clause(negate(vars[1]))
WaerdenModel == add_clause(waerden33(WaerdenN), <<negate(WaerdenVar(1))>>).m

\* the decisions of the test case, and their negations
WaerdenDecisions ==
    { negate(WaerdenVar(2)), negate(WaerdenVar(4)), negate(WaerdenVar(7)),
      WaerdenVar(6), WaerdenVar(5),
      WaerdenVar(2), WaerdenVar(4), WaerdenVar(7),
      negate(WaerdenVar(6)), negate(WaerdenVar(5)) }

\* Propagator propagator(model)
WaerdenPropagator == NewPropagator(WaerdenModel)

InitWaerden ==
    /\ model = WaerdenModel
    /\ Is(WaerdenPropagator)
    /\ call = [name |-> "Propagator", arg |-> NIL, ret |-> TRUE, thrown |-> FALSE,
               level |-> 0, conflicting |-> FALSE]
    /\ handler = <<>>
    /\ pushed_from = NoSnapshot
    /\ ncalls = 0
    /\ clauses = <<>>
    /\ stamp_set = NewStampSet(0)
    /\ members = {}
    /\ history = <<>>
    /\ extractor = NewExtractor

\* push_level(decision) on a propagator that is not conflicting, with an open
\* decision
WaerdenPushLevel(decision) ==
    /\ ncalls < MaxWaerdenCalls
    /\ ~conflicting
    /\ is_open(Self, decision)
    /\ LET r == push_level(Self, decision)
       IN  /\ Becomes(r.p)
           /\ call' = Called("push_level", decision, r.ret, r.thrown)
    /\ pushed_from' = NoSnapshot
    /\ handler' = <<>>
    /\ ncalls' = ncalls + 1
    /\ history' = Append(history, <<"push_level", decision>>)
    /\ UNCHANGED <<model, clauses, stamp_set, members, extractor>>

\* resolve_conflicts(handler) on a conflicting propagator
WaerdenResolveConflicts ==
    /\ ncalls < MaxWaerdenCalls
    /\ conflicting
    /\ call.ret \/ call.name # "resolve_conflicts"
    /\ LET r == resolve_conflicts(Self, <<>>)
       IN  /\ Becomes(r.p)
           /\ call' = Called("resolve_conflicts", NIL, r.ret, FALSE)
           /\ handler' = r.log
    /\ pushed_from' = NoSnapshot
    /\ ncalls' = ncalls + 1
    /\ history' = Append(history, <<"resolve_conflicts", NIL>>)
    /\ UNCHANGED <<model, clauses, stamp_set, members, extractor>>

NextWaerden ==
    \/ \E decision \in WaerdenDecisions : WaerdenPushLevel(decision)
    \/ WaerdenResolveConflicts

SpecWaerden == InitWaerden /\ [][NextWaerden]_vars

\* ------------------------------------------------------------------------
\* A StampSet<Lit, std::uint16_t> on its own
\* ------------------------------------------------------------------------
\* the epochs a set starts from: the first one and the last two before the
\* epoch counter wraps around
StampEpochs == {1, StampTypeValues - 2, StampTypeValues - 1}

\* the stamps left by insertions in the first two epochs, and no stamp
OldStamps == {0, 1, 2}

\* a set after clear and insert calls: every stamp is 0 or an epoch up to the
\* current one, and the members are the elements stamped with the current one
InitStampSet ==
    /\ \E epoch \in StampEpochs :
       \E stamps \in [1..StampUniverse -> OldStamps \cup {epoch}] :
          /\ \A i \in 1..StampUniverse : stamps[i] <= epoch
          /\ stamp_set = [m_stamps |-> stamps, m_current_stamp |-> epoch]
          /\ members = { v \in 0..(StampUniverse - 1) : stamps[v + 1] = epoch }
    /\ clauses = <<>>
    /\ history = <<>>
    /\ extractor = NewExtractor
    /\ model = NewModel
    /\ Is(NewPropagator(NewModel))
    /\ call = [name |-> "StampSet", arg |-> NIL, ret |-> TRUE, thrown |-> FALSE,
               level |-> 0, conflicting |-> FALSE]
    /\ handler = <<>>
    /\ pushed_from = NoSnapshot
    /\ ncalls = 0

\* what every call on the set leaves alone
StampCall ==
    /\ ncalls < MaxStampCalls
    /\ ncalls' = ncalls + 1
    /\ UNCHANGED <<propagator_vars, model, handler, pushed_from, clauses, history,
                 extractor>>

\* clear()
Clear ==
    /\ StampCall
    /\ stamp_set' = clear(stamp_set)
    /\ members' = {}
    /\ call' = Called("clear", NIL, TRUE, FALSE)

\* insert(v)
Insert(v) ==
    /\ StampCall
    /\ stamp_set' = insert(stamp_set, v)
    /\ members' = members \cup {v}
    /\ call' = Called("insert", v, TRUE, FALSE)

\* erase(v)
Erase(v) ==
    /\ StampCall
    /\ stamp_set' = erase(stamp_set, v)
    /\ members' = members \ {v}
    /\ call' = Called("erase", v, TRUE, FALSE)

\* check_insert(v)
CheckInsert(v) ==
    /\ StampCall
    /\ stamp_set' = check_insert(stamp_set, v).s
    /\ members' = members \cup {v}
    /\ call' = Called("check_insert", v, check_insert(stamp_set, v).ret, FALSE)

\* check_erase(v)
CheckErase(v) ==
    /\ StampCall
    /\ stamp_set' = check_erase(stamp_set, v).s
    /\ members' = members \ {v}
    /\ call' = Called("check_erase", v, check_erase(stamp_set, v).ret, FALSE)

NextStampSet ==
    \/ Clear
    \/ \E v \in 0..(StampUniverse - 1) :
          \/ Insert(v)
          \/ Erase(v)
          \/ CheckInsert(v)
          \/ CheckErase(v)

SpecStampSet == InitStampSet /\ [][NextStampSet]_vars

\* ------------------------------------------------------------------------
\* Properties
\* ------------------------------------------------------------------------
\* the last step was a call of the named public method
Step(name) == ncalls' = ncalls + 1 /\ call'.name = name

\* some assignment of the variables satisfies every clause of the builder
Satisfiable(m) ==
    \E a \in [0..(var(m.m_current_lit) - 1) -> BOOLEAN] : verify_assignment(m, a)

\* C1: whenever the propagator is not conflicting and every variable is on
\* the trail, verify_assignment(extract_assignment()) and verify_trail(trail)
\* report no error for the ModelBuilder the propagator was constructed from.
C1_CompleteTrailSatisfiesModel ==
    (~conflicting /\ Len(trail_lits) = m_num_vars)
        => /\ verify_assignment(model, extract_assignment(Self))
           /\ verify_trail(model, trail_lits)

\* a complete trail without conflict, reached by decisions, in a model with
\* long clauses
C1_Witness ==
    /\ ~conflicting
    /\ Len(trail_lits) = m_num_vars
    /\ Len(levels) > 1
    /\ model.m_longer_clauses # <<>>
    /\ call.name = "resolve_conflicts"
    /\ call.conflicting

\* C2: resolve_conflicts returns false, or the propagator is conflicting at
\* level 0 directly after its construction, only if no assignment satisfies
\* the formula the propagator was constructed from.
C2_FalseOnlyIfUnsatisfiable ==
    (\/ call.name = "resolve_conflicts" /\ ~call.ret
     \/ call.name = "Propagator" /\ conflicting)
        => ~Satisfiable(model)

\* resolve_conflicts, called at a level above 0, has returned false
C2_Witness ==
    /\ call.name = "resolve_conflicts"
    /\ ~call.ret
    /\ call.level >= 1

\* the trail entry i after the step is a literal that was not on the trail
\* before the step and its level is below the level before the step
NewBelow(i) ==
    /\ \A j \in 1..Len(trail_lits) : trail_lits[j] # trail_lits'[i]
    /\ vs_level(variables'[var(trail_lits'[i])]) < Len(levels) - 1

\* C3 as stated: after resolve_conflicts returns true the propagator is not
\* conflicting and a literal that was not on the trail before is on the trail
\* at a level strictly below the level at the time of the call.
C3_Original ==
    [][(Step("resolve_conflicts") /\ call'.ret)
          => /\ ~conflicting'
             /\ \E i \in 1..Len(trail_lits') : NewBelow(i)]_vars

\* C3 amended: the same, for calls made while the propagator is conflicting.
C3_ResolvedAssertsBelow ==
    [][(Step("resolve_conflicts") /\ call'.ret /\ conflicting)
          => /\ ~conflicting'
             /\ \E i \in 1..Len(trail_lits') : NewBelow(i)]_vars

\* resolve_conflicts was called on a conflict of level 2 or above, returned
\* true and left the propagator above level 0
C3_Witness ==
    /\ call.name = "resolve_conflicts"
    /\ call.ret
    /\ call.conflicting
    /\ call.level >= 2
    /\ Len(levels) > 1

\* C4: after resolve_conflicts returns false the current level is 0 and the
\* propagator is conflicting.
C4_FalseAtLevelZero ==
    (call.name = "resolve_conflicts" /\ ~call.ret)
        => (get_current_level(Self) = 0 /\ conflicting)

\* resolve_conflicts returned false after a conflict of level 2 or above
C4_Witness ==
    /\ call.name = "resolve_conflicts"
    /\ ~call.ret
    /\ call.level >= 2
    /\ Len(trail_lits) > 0

\* C5: push_level(decision) throws, and adds neither a level nor an
\* assignment, when the propagator is conflicting or the variable of decision
\* is not open.
C5_PushLevelRejects ==
    [][(Step("push_level") /\ (conflicting \/ ~is_open(Self, call'.arg)))
          => /\ call'.thrown
             /\ levels' = levels
             /\ trail_lits' = trail_lits]_vars

\* C6: push_level(d) on a propagator that is not conflicting, with d open,
\* raises the current level by one (also when it ends in a conflict), makes d
\* the first trail entry of the new level with reason Decision, and returns
\* true exactly when the propagator is not conflicting afterwards.
C6_PushLevelDecides ==
    [][(Step("push_level") /\ ~conflicting /\ is_open(Self, call'.arg))
          => /\ ~call'.thrown
             /\ Len(levels') = Len(levels) + 1
             /\ SubSeq(levels', 1, Len(levels)) = levels
             /\ levels'[Len(levels')].trail_pos = Len(trail_lits)
             /\ Len(trail_lits') > Len(trail_lits)
             /\ SubSeq(trail_lits', 1, Len(trail_lits)) = trail_lits
             /\ trail_lits'[Len(trail_lits) + 1] = call'.arg
             /\ trail_reasons'[Len(trail_lits) + 1] = Decision
             /\ vs_level(variables'[var(call'.arg)]) = Len(levels') - 1
             /\ call'.ret = ~conflicting']_vars

\* push_level has ended in a conflict, one level above the level of the call
C6_Witness ==
    /\ call.name = "push_level"
    /\ ~call.thrown
    /\ ~call.ret
    /\ conflicting
    /\ Len(levels) - 1 = call.level + 1
    /\ call.level >= 1

\* the positions of the trail whose literal is assigned on a level below k
Below(k) ==
    {i \in 1..Len(trail_lits) : vs_level(variables[var(trail_lits[i])]) < k}

\* C7: pop_level at level k >= 1 removes exactly the trail entries and
\* reasons of level k, opens exactly their variables, lowers the level to
\* k - 1, leaves the entries of the levels below k as they are and leaves the
\* propagator not conflicting.
C7_PopLevelRemovesTopLevel ==
    [][(Step("pop_level") /\ Len(levels) > 1)
          => /\ ~call'.thrown
             /\ Below(Len(levels) - 1) = 1..Len(trail_lits')
             /\ trail_lits' = SubSeq(trail_lits, 1, Len(trail_lits'))
             /\ trail_reasons' = SubSeq(trail_reasons, 1, Len(trail_lits'))
             /\ \A v \in DOMAIN variables :
                   vs_is_open(variables'[v])
                      <=> \/ vs_is_open(variables[v])
                          \/ \E i \in 1..Len(trail_lits) :
                                /\ i \notin Below(Len(levels) - 1)
                                /\ var(trail_lits[i]) = v
             /\ \A i \in 1..Len(trail_lits') :
                   /\ vs_is_true(variables'[var(trail_lits[i])], trail_lits[i])
                   /\ vs_level(variables'[var(trail_lits[i])])
                         = vs_level(variables[var(trail_lits[i])])
             /\ Len(levels') = Len(levels) - 1
             /\ levels' = SubSeq(levels, 1, Len(levels) - 1)
             /\ ~conflicting']_vars

\* pop_level has dropped a conflicting level 2 or above that held propagated
\* literals too
C7_Witness ==
    /\ call.name = "pop_level"
    /\ ~call.thrown
    /\ call.conflicting
    /\ call.level >= 2
    /\ pushed_from.taken
    /\ Len(trail_lits) > 1

\* C8: push_level(d) on a propagator that is not conflicting, with d open,
\* followed by pop_level() leaves the trail, the reasons and the level stack
\* exactly as they were before the push, whether or not the push ended in a
\* conflict.
C8_PushPopRestores ==
    (call.name = "pop_level" /\ pushed_from.taken)
        => /\ trail_lits = pushed_from.trail_lits
           /\ trail_reasons = pushed_from.trail_reasons
           /\ levels = pushed_from.levels

\* a push_level that ended in a conflict above level 1 was popped again
C8_Witness ==
    /\ call.name = "pop_level"
    /\ pushed_from.taken
    /\ call.conflicting
    /\ Len(levels) > 1
    /\ Len(trail_lits) > 1

\* the literals the handler was told to be undone / forced in the last step
ReportedUndone == {handler'[i].lit : i \in {j \in 1..Len(handler') : handler'[j].kind = "undone"}}

ReportedForced == {handler'[i].lit : i \in {j \in 1..Len(handler') : handler'[j].kind = "forced"}}

\* C9: during resolve_conflicts(handler) on a conflicting propagator at level
\* k >= 1, no assignment of level k is reported as undone, every assignment of
\* a lower level that the call removes from the trail is reported through
\* assignment_undone, and when the call returns true every literal that is on
\* the trail afterwards but was not before is reported through
\* assignment_forced.
C9_HandlerReports ==
    [][(Step("resolve_conflicts") /\ conflicting /\ Len(levels) > 1)
          => /\ \A i \in 1..Len(trail_lits) :
                   i \notin Below(Len(levels) - 1)
                      => trail_lits[i] \notin ReportedUndone
             /\ \A i \in Below(Len(levels) - 1) :
                   (i > Len(trail_lits') \/ trail_lits'[i] # trail_lits[i])
                      => trail_lits[i] \in ReportedUndone
             /\ call'.ret =>
                   \A j \in 1..Len(trail_lits') :
                      (\A i \in 1..Len(trail_lits) : trail_lits[i] # trail_lits'[j])
                         => trail_lits'[j] \in ReportedForced]_vars

\* resolve_conflicts returned true and its handler was told of undone and of
\* forced assignments
C9_Witness ==
    /\ call.name = "resolve_conflicts"
    /\ call.ret
    /\ call.conflicting
    /\ \E i \in 1..Len(handler) : handler[i].kind = "undone"
    /\ \E i \in 1..Len(handler) : handler[i].kind = "forced"

\* the propagation after the first jump of resolve_conflicts raises no conflict
FirstJumpSettles ==
    propagate(p_reset_conflict(
        p_handle_conflict_clause(p_compute_conflict_clause(Self)).p)).ret

\* the trail position, after the step, of the first entry that the trail did
\* not hold at this position before the step: the learnt literal
FirstNew ==
    CHOOSE i \in 1..Len(trail_lits') :
       /\ i > Len(trail_lits) \/ trail_lits'[i] # trail_lits[i]
       /\ \A j \in 1..(i - 1) : j <= Len(trail_lits) /\ trail_lits'[j] = trail_lits[j]

\* the literals of the learnt clause, read from the reason of the learnt
\* literal after the step, without the learnt literal itself
LearntOthers ==
    {l \in Range(reason_lits([m_large_clause_db |-> m_large_clause_db'],
                             trail_reasons'[FirstNew])) : l # trail_lits'[FirstNew]}

\* C10: when resolve_conflicts resolves a conflict and the propagation after
\* the jump raises no further conflict, the level after the call is the
\* largest decision level among the literals of the learnt clause other than
\* the learnt literal, and 0 when the learnt clause is unary.
C10_JumpsToSecondLevel ==
    [][(Step("resolve_conflicts") /\ conflicting /\ Len(levels) > 1
           /\ FirstJumpSettles)
          => /\ call'.ret
             /\ trail_reasons'[FirstNew].reason_length = Cardinality(LearntOthers) + 1
             /\ \A l \in LearntOthers :
                   vs_level(variables'[var(l)]) <= Len(levels') - 1
             /\ LearntOthers # {} =>
                   \E l \in LearntOthers :
                      vs_level(variables'[var(l)]) = Len(levels') - 1
             /\ LearntOthers = {} => Len(levels') - 1 = 0]_vars

\* resolve_conflicts has jumped over a level to a level above 0, and the
\* first literal it reported as forced, the learnt literal, has a learnt
\* clause of three or more literals as its reason
C10_Witness ==
    /\ call.name = "resolve_conflicts"
    /\ call.ret
    /\ call.conflicting
    /\ Len(levels) - 1 >= 1
    /\ call.level >= Len(levels) + 1
    /\ \E i \in 1..Len(handler) :
          /\ handler[i].kind = "forced"
          /\ \A j \in 1..(i - 1) : handler[j].kind = "undone"
          /\ get_reason(Self, handler[i].lit).reason_length >= 3
          /\ get_decision_level(Self, handler[i].lit) = Len(levels) - 1

\* C11: a call in the wrong state throws and changes nothing: pop_level at
\* level 0, extract_assignment with fewer than num_vars trail entries,
\* decisions_leading_to on an open literal or on a conflicting propagator,
\* decisions_leading_to_conflict on a propagator that is not conflicting.
C11_WrongStateCallsRejected ==
    [][(\/ Step("pop_level") /\ Len(levels) = 1
        \/ Step("extract_assignment") /\ Len(trail_lits) < m_num_vars
        \/ Step("decisions_leading_to")
              /\ (conflicting \/ is_open(Self, call'.arg))
        \/ Step("decisions_leading_to_conflict") /\ ~conflicting)
          => /\ call'.thrown
             /\ UNCHANGED <<propagator_vars, model>>]_vars

\* decisions_leading_to has thrown on a conflicting propagator above level 0
\* that holds the result of an earlier query
C11_Witness ==
    /\ call.name = "decisions_leading_to"
    /\ call.thrown
    /\ conflicting
    /\ Len(levels) > 1
    /\ supporting_decision_buffer # <<>>

\* the step is a call that finalises the clause buffer
Finalises ==
    /\ ncalls' = ncalls + 1
    /\ call'.name \in {"finalize_clause", "add_clause"}

\* the clause buffer at the time the step finalises it
FinalisedBuffer ==
    IF call'.name = "add_clause"
    THEN model.m_current_clause_buffer \o call'.arg
    ELSE model.m_current_clause_buffer

\* some literal of buf is in buf together with its negation
IsTautology(buf) ==
    \E i \in 1..Len(buf) : \E j \in 1..Len(buf) : buf[i] = negate(buf[j])

\* the three clause stores of the builder are as before the step
StoresUnchanged ==
    /\ model'.m_unary_clauses = model.m_unary_clauses
    /\ model'.m_binary_clauses = model.m_binary_clauses
    /\ model'.m_longer_clauses = model.m_longer_clauses

\* C12: finalising a buffer that holds a literal together with its negation
\* leaves the unary, binary and long clause stores unchanged.
C12_TautologyDiscarded ==
    [][(Finalises /\ IsTautology(FinalisedBuffer)) => StoresUnchanged]_vars

\* C13: finalising an empty clause buffer raises the UNSAT condition and
\* leaves the clause stores and the number of variables of the builder
\* unchanged.
C13_EmptyClauseRaisesUnsat ==
    [][(Finalises /\ FinalisedBuffer = <<>>)
          => /\ call'.thrown
             /\ StoresUnchanged
             /\ model'.m_current_lit = model.m_current_lit]_vars

\* the second call on the builder is a finalize_clause that has thrown,
\* directly after the first call has stored a long clause
C13_Witness ==
    /\ ncalls = 2
    /\ call.name = "finalize_clause"
    /\ call.thrown
    /\ model.m_longer_clauses # <<>>

\* the elements of a set of literals in ascending order
Ascending(S) ==
    CHOOSE q \in [1..Cardinality(S) -> S] :
       \A i \in 1..Cardinality(S) : \A j \in 1..Cardinality(S) :
          i < j => q[i] < q[j]

\* the binary partner list of literal l in builder m
Partners(m, l) ==
    IF l + 1 <= Len(m.m_binary_clauses) THEN m.m_binary_clauses[l + 1] ELSE <<>>

\* C14: finalising a buffer that is not empty and not a tautology stores
\* exactly one clause, the buffer in ascending order without repeated
\* literals: a clause of length 1 is appended to the unary store, one of
\* length 2 to the partner lists of both its literals, a longer one to the
\* long clauses; nothing else is stored and the buffer is empty afterwards.
C14_ClauseStoredByLength ==
    [][(Finalises /\ FinalisedBuffer # <<>> /\ ~IsTautology(FinalisedBuffer))
          => LET c == Ascending(Range(FinalisedBuffer))
             IN  /\ ~call'.thrown
                 /\ model'.m_current_clause_buffer = <<>>
                 /\ model'.m_unary_clauses =
                       IF Len(c) = 1 THEN Append(model.m_unary_clauses, c[1])
                       ELSE model.m_unary_clauses
                 /\ model'.m_longer_clauses =
                       IF Len(c) >= 3 THEN Append(model.m_longer_clauses, c)
                       ELSE model.m_longer_clauses
                 /\ Len(c) # 2 => model'.m_binary_clauses = model.m_binary_clauses
                 /\ Len(c) = 2 =>
                       \A l \in 0..(MaxLit + 2) :
                          Partners(model', l) =
                             IF l = c[1] THEN Append(Partners(model, l), c[2])
                             ELSE IF l = c[2] THEN Append(Partners(model, l), c[1])
                             ELSE Partners(model, l)]_vars

\* add_clause was called with the range 2, 0, 2 and the
\* binary clause {0, 2} is in the partner lists of both literals
C14_Witness ==
    /\ call.name = "add_clause"
    /\ call.arg = <<2, 0, 2>>
    /\ ~call.thrown
    /\ \E i \in 1..Len(Partners(model, 0)) : Partners(model, 0)[i] = 2
    /\ \E i \in 1..Len(Partners(model, 2)) : Partners(model, 2)[i] = 0

\* clause a subsumes clause b: the literals of a are literals of b
Subsumes(a, b) == Range(a) \subseteq Range(b)

\* a list of non-empty clauses, each with distinct literals below 2 * n_all
ValidClauseList(cs) ==
    \A i \in 1..Len(cs) :
       /\ cs[i] # <<>>
       /\ \A k \in 1..Len(cs[i]) :
             /\ cs[i][k] \in 0..(2 * NumSubsumedVars - 1)
             /\ \A h \in 1..Len(cs[i]) : h # k => cs[i][h] # cs[i][k]

\* the literal sets of the clauses of a list
LiteralSets(cs) == {Range(cs[i]) : i \in 1..Len(cs)}

\* the literal sets of a list that contain no other literal set of the list
MinimalSets(cs) ==
    {a \in LiteralSets(cs) : \A b \in LiteralSets(cs) : b \subseteq a => b = a}

\* C15: for a list of non-empty clauses with distinct literals the call
\* returns, its output holds no clause twice, every output clause is a clause
\* of the input, every input clause is subsumed by some output clause, no
\* output clause subsumes another one, and the literal sets of the output are
\* the subset-minimal literal sets of the input.
C15_OutputIsMinimalClauses ==
    [][(Step("eliminate_subsumed") /\ ValidClauseList(clauses))
          => /\ call'.ret
             /\ \A i \in 1..Len(clauses') : \A j \in 1..Len(clauses') :
                   i # j => clauses'[i] # clauses'[j]
             /\ \A i \in 1..Len(clauses') : \E j \in 1..Len(clauses) :
                   clauses'[i] = clauses[j]
             /\ \A j \in 1..Len(clauses) : \E i \in 1..Len(clauses') :
                   Subsumes(clauses'[i], clauses[j])
             /\ \A i \in 1..Len(clauses') : \A j \in 1..Len(clauses') :
                   i # j => ~Subsumes(clauses'[j], clauses'[i])
             /\ LiteralSets(clauses') = MinimalSets(clauses)]_vars

\* the call was made on a list of non-empty clauses that holds a clause
\* twice with its literals in different orders and a clause with a proper
\* subset in the list, and two or more clauses are left
C15_Witness ==
    /\ call.name = "eliminate_subsumed"
    /\ call.ret
    /\ ValidClauseList(call.arg)
    /\ \E i \in 1..Len(call.arg) : \E j \in 1..Len(call.arg) :
          call.arg[i] # call.arg[j] /\ Range(call.arg[i]) = Range(call.arg[j])
    /\ \E i \in 1..Len(call.arg) : \E j \in 1..Len(call.arg) :
          Subsumes(call.arg[i], call.arg[j]) /\ ~Subsumes(call.arg[j], call.arg[i])
    /\ Len(clauses) >= 2
    /\ Len(clauses) < Len(call.arg)

\* C16: eliminate_subsumed applied to the output of eliminate_subsumed
\* returns and leaves the list as it is: the same clauses in the same order.
C16_Idempotent ==
    [][(Step("eliminate_subsumed") /\ call.name = "eliminate_subsumed" /\ call.ret)
          => call'.ret /\ clauses' = clauses]_vars

\* the second call on a list has returned a list of two or more clauses
C16_Witness ==
    /\ ncalls = 2
    /\ call.name = "eliminate_subsumed"
    /\ call.ret
    /\ Len(clauses) >= 2
    /\ Len(call.arg) >= 2

\* the assignments of the variables of a clause list
ClauseAssignments == [0..(NumSubsumedVars - 1) -> BOOLEAN]

\* the assignment satisfies every clause of the list
SatisfiesAll(assignment, cs) ==
    \A i \in 1..Len(cs) : \E k \in 1..Len(cs[i]) : satisfies(assignment, cs[i][k])

\* C17 as stated: when eliminate_subsumed returns, a total assignment
\* satisfies all clauses of the input if and only if it satisfies all clauses
\* of the output.
C17_Original ==
    [][(Step("eliminate_subsumed") /\ call'.ret)
          => \A assignment \in ClauseAssignments :
                SatisfiesAll(assignment, clauses) <=> SatisfiesAll(assignment, clauses')]_vars

\* C17, for inputs without an empty clause: a total assignment satisfies all
\* clauses of the input if and only if it satisfies all clauses of the output.
C17_EquivalentWithoutEmptyClauses ==
    [][(Step("eliminate_subsumed") /\ \A i \in 1..Len(clauses) : clauses[i] # <<>>)
          => /\ call'.ret
             /\ \A assignment \in ClauseAssignments :
                   SatisfiesAll(assignment, clauses) <=> SatisfiesAll(assignment, clauses')]_vars

\* the call has removed clauses from a list without an empty clause and has
\* left two or more clauses, which some assignment satisfies and some
\* assignment does not
C17_Witness ==
    /\ call.name = "eliminate_subsumed"
    /\ call.ret
    /\ \A i \in 1..Len(call.arg) : call.arg[i] # <<>>
    /\ Len(clauses) < Len(call.arg)
    /\ Len(clauses) >= 2
    /\ \E assignment \in ClauseAssignments : SatisfiesAll(assignment, clauses)
    /\ \E assignment \in ClauseAssignments : ~SatisfiesAll(assignment, clauses)

\* C18: on a list that holds empty clauses eliminate_subsumed returns, and
\* the list afterwards is the one the call leaves of the list without its
\* empty clauses: the empty clauses are gone and no other clause is removed
\* because of them.
C18_EmptyClausesAreTombstones ==
    [][(Step("eliminate_subsumed") /\ \E i \in 1..Len(clauses) : clauses[i] = <<>>)
          => /\ call'.ret
             /\ clauses' =
                   eliminate_subsumed(SelectSeq(clauses, LAMBDA cl : cl # <<>>),
                                      NumSubsumedVars, NIL).clauses]_vars

\* ------------------------------------------------------------------------
\* C19: the test case waerden(3,3;9)
\* ------------------------------------------------------------------------
Push(l) == <<"push_level", l>>

Resolve == <<"resolve_conflicts", NIL>>

\* the calls of the test case
WaerdenCalls ==
    << Push(negate(WaerdenVar(2))), Push(negate(WaerdenVar(4))), Resolve,
       Push(negate(WaerdenVar(7))), Resolve,
       Push(WaerdenVar(6)), Resolve,
       Push(WaerdenVar(5)), Resolve >>

\* the calls of the scenario that has no push_level(not v4)
WaerdenCallsWithoutV4 ==
    << Push(negate(WaerdenVar(2))), Resolve,
       Push(negate(WaerdenVar(7))), Resolve,
       Push(WaerdenVar(6)), Resolve,
       Push(WaerdenVar(5)), Resolve >>

\* the first k calls of the given calls have been made, and no other
Made(calls, k) == k <= Len(calls) /\ history = SubSeq(calls, 1, k)

Conflict == ~call.ret /\ conflicting

ResolvedTo(trail) ==
    /\ call.ret
    /\ ~conflicting
    /\ Len(levels) = 1
    /\ trail_lits = trail

Refuted ==
    /\ ~call.ret
    /\ conflicting
    /\ Len(levels) = 1

\* C19 as stated: construction fixes not-v1 at level 0; push_level(not v2)
\* yields a conflict, which resolve_conflicts resolves to level 0 with trail
\* [not v1, v2]; push_level(not v7) conflicts and resolves to [not v1, v2, v7];
\* push_level(v6) conflicts and resolves to [not v1, v2, v7, not v6];
\* push_level(v5) conflicts and resolve_conflicts returns false at level 0
\* with the propagator conflicting.
C19_Original ==
    /\ Made(WaerdenCallsWithoutV4, 0) =>
           ResolvedTo(<<negate(WaerdenVar(1))>>)
    /\ Made(WaerdenCallsWithoutV4, 1) => Conflict
    /\ Made(WaerdenCallsWithoutV4, 2) =>
           ResolvedTo(<<negate(WaerdenVar(1)), WaerdenVar(2)>>)
    /\ Made(WaerdenCallsWithoutV4, 3) => Conflict
    /\ Made(WaerdenCallsWithoutV4, 4) =>
           ResolvedTo(<<negate(WaerdenVar(1)), WaerdenVar(2), WaerdenVar(7)>>)
    /\ Made(WaerdenCallsWithoutV4, 5) => Conflict
    /\ Made(WaerdenCallsWithoutV4, 6) =>
           ResolvedTo(<<negate(WaerdenVar(1)), WaerdenVar(2), WaerdenVar(7),
                        negate(WaerdenVar(6))>>)
    /\ Made(WaerdenCallsWithoutV4, 7) => Conflict
    /\ Made(WaerdenCallsWithoutV4, 8) => Refuted

\* C19, amended: construction fixes not-v1 at level 0; push_level(not v2)
\* returns true with trail [not v1, not v2, v3] at level 1; push_level(not v4)
\* yields a conflict at level 2, which resolve_conflicts resolves to level 0
\* with trail [not v1, v2]; push_level(not v7) conflicts at level 1 and
\* resolves to [not v1, v2, v7]; push_level(v6) conflicts and resolves to
\* [not v1, v2, v7, not v6]; push_level(v5) conflicts and resolve_conflicts
\* returns false at level 0 with the propagator conflicting.
C19_WaerdenTestCase ==
    /\ Made(WaerdenCalls, 0) =>
           ResolvedTo(<<negate(WaerdenVar(1))>>)
    /\ Made(WaerdenCalls, 1) =>
           /\ call.ret
           /\ ~conflicting
           /\ Len(levels) = 2
           /\ trail_lits = <<negate(WaerdenVar(1)), negate(WaerdenVar(2)),
                             WaerdenVar(3)>>
    /\ Made(WaerdenCalls, 2) => Conflict /\ Len(levels) = 3
    /\ Made(WaerdenCalls, 3) =>
           ResolvedTo(<<negate(WaerdenVar(1)), WaerdenVar(2)>>)
    /\ Made(WaerdenCalls, 4) => Conflict /\ Len(levels) = 2
    /\ Made(WaerdenCalls, 5) =>
           ResolvedTo(<<negate(WaerdenVar(1)), WaerdenVar(2), WaerdenVar(7)>>)
    /\ Made(WaerdenCalls, 6) => Conflict
    /\ Made(WaerdenCalls, 7) =>
           ResolvedTo(<<negate(WaerdenVar(1)), WaerdenVar(2), WaerdenVar(7),
                        negate(WaerdenVar(6))>>)
    /\ Made(WaerdenCalls, 8) => Conflict
    /\ Made(WaerdenCalls, 9) => Refuted

\* all calls of the test case have been made and the last resolve_conflicts
\* has returned false
C19_Witness == Made(WaerdenCalls, 9) /\ Refuted

\* ------------------------------------------------------------------------
\* C20: StampSet is a set over [0, U)
\* ------------------------------------------------------------------------
\* contains(v) is true exactly for the elements inserted and not erased since
\* the last clear, and directly after clear for none
StampSetIsSet ==
    /\ \A v \in 0..(Len(stamp_set.m_stamps) - 1) :
          contains(stamp_set, v) <=> v \in members
    /\ call.name = "clear" =>
          \A v \in 0..(Len(stamp_set.m_stamps) - 1) : ~contains(stamp_set, v)

\* check_insert returns true iff v was not a member, check_erase iff it was
StampSetReturns ==
    /\ Step("check_insert") => (call'.ret <=> call'.arg \notin members)
    /\ Step("check_erase") => (call'.ret <=> call'.arg \in members)

\* C20: under any sequence of clear, insert, erase, check_insert and
\* check_erase calls, also ones in which the epoch counter wraps around,
\* contains(v) is true exactly for the elements inserted and not erased since
\* the last clear, check_insert returns true iff v was not a member,
\* check_erase returns true iff v was a member, and the set is empty directly
\* after clear.
C20_StampSetIsSet == [](StampSetIsSet) /\ [][StampSetReturns]_vars

\* a clear has just wrapped the epoch counter around: the epoch is 1 again,
\* which no other clear leaves behind
C20_Witness ==
    /\ call.name = "clear"
    /\ stamp_set.m_current_stamp = 1
    /\ \A v \in 0..(StampUniverse - 1) : stamp_set.m_stamps[v + 1] = 0

\* ------------------------------------------------------------------------
\* C21: decisions_leading_to returns the decisions that support a literal
\* ------------------------------------------------------------------------
\* the true literals that the reason of the true literal x names beside x
ReasonParents(p, x) ==
    { negate(lr) : lr \in Range(reason_lits(p, get_reason(p, x))) \ {x} }

\* the literals reached from the literals of S by following reasons
\* backwards at most k times
RECURSIVE ReachedFrom(_, _, _)
ReachedFrom(p, S, k) ==
    IF k = 0 THEN S
    ELSE ReachedFrom(p, S \cup UNION { ReasonParents(p, x) : x \in S }, k - 1)

\* the decision literals reachable from the true literal l
SupportingDecisions(p, l) ==
    { d \in ReachedFrom(p, {l}, Len(p.trail_lits)) :
         get_reason(p, d).reason_length = 0 }

\* C21: in a non-conflicting state, decisions_leading_to(l) for a literal l on
\* the trail returns, without duplicates, exactly the pairs (level, d) of the
\* decision literals d reachable from l by following reasons backwards (l
\* itself if l is a decision); each d is on the trail at the returned level,
\* which is at most the level of l.
C21_DecisionsLeadingTo ==
    [][(/\ Step("decisions_leading_to")
        /\ ~conflicting
        /\ is_true(Self, call'.arg))
       => (/\ ~call'.thrown
           /\ \A i, j \in 1..Len(supporting_decision_buffer') :
                 i # j => supporting_decision_buffer'[i] # supporting_decision_buffer'[j]
           /\ Range(supporting_decision_buffer') =
                 { <<get_decision_level(Self, d), d>> :
                      d \in SupportingDecisions(Self, call'.arg) }
           /\ \A i \in 1..Len(supporting_decision_buffer') :
                 /\ \E t \in 1..Len(trail_lits) :
                       trail_lits[t] = supporting_decision_buffer'[i][2]
                 /\ supporting_decision_buffer'[i][1] <=
                       get_decision_level(Self, call'.arg))]_vars

\* decisions_leading_to has returned two decisions for a literal that was
\* forced through a chain of reasons
C21_Witness ==
    /\ call.name = "decisions_leading_to"
    /\ ~call.thrown
    /\ is_true(Self, call.arg)
    /\ Len(supporting_decision_buffer) >= 2
    /\ \E x \in ReasonParents(Self, call.arg) :
          get_reason(Self, x).reason_length > 0

\* ------------------------------------------------------------------------
\* The clauses of the propagator, for the invariants C23 .. C28
\* ------------------------------------------------------------------------
\* the references of the clauses in the arena from clause ref on
RECURSIVE ArenaRefsFrom(_, _)
ArenaRefsFrom(db, ref) ==
    IF ref > Len(db) THEN {}
    ELSE {ref} \cup ArenaRefsFrom(db, ref + db[ref] + 1)

ArenaRefs == ArenaRefsFrom(m_large_clause_db, first_longer_clause)

\* every clause of the propagator, original or learnt, as a sequence
AllClauses ==
    { <<m_unary_clauses[i]>> : i \in 1..Len(m_unary_clauses) }
    \cup UNION { { <<l, binary_partners_of(Self, l)[j]>> :
                      j \in 1..Len(binary_partners_of(Self, l)) } :
                 l \in 0..(Len(m_binary_clauses) - 1) }
    \cup { lits_of(Self, ref) : ref \in ArenaRefs }

\* the numbers of false and of open literals of a clause
FalseLits(c) == Cardinality({ i \in 1..Len(c) : is_false(Self, c[i]) })

OpenLits(c) == Cardinality({ i \in 1..Len(c) : is_open(Self, c[i]) })

\* C23: in every non-conflicting state reached after construction or after
\* a push_level, pop_level or resolve_conflicts call returns, propagation is
\* complete: no clause of the formula (original or learnt; unary, binary or
\* long) has all its literals false, and no clause has all literals false
\* except exactly one open literal.
C23_PropagationComplete ==
    ~conflicting =>
        \A c \in AllClauses :
           /\ FalseLits(c) # Len(c)
           /\ ~(FalseLits(c) = Len(c) - 1 /\ OpenLits(c) = 1)

\* a learnt long clause is in the arena of a propagator that is not
\* conflicting, and has propagated a literal above level 0
C23_Witness ==
    /\ ~conflicting
    /\ call.name = "resolve_conflicts"
    /\ call.conflicting
    /\ Len(m_large_clause_db) > Len(FlattenClauses(model.m_longer_clauses))
    /\ Len(levels) > 1

\* the long clause at ref has a literal that is true at level 0
SatisfiedAtLevel0(ref) ==
    \E j \in 1..clause_length(Self, ref) :
       /\ is_true(Self, lits_of(Self, ref)[j])
       /\ get_decision_level(Self, lits_of(Self, ref)[j]) = 0

\* C24: in every non-conflicting reachable state, every long clause that is
\* not satisfied at level 0 has at least one of literals[0], literals[1] open
\* or true under the current trail.
C24_WatchedLiteralNotFalse ==
    ~conflicting =>
        \A ref \in ArenaRefs :
           ~SatisfiedAtLevel0(ref) =>
               \/ is_open_or_true(Self, lits_of(Self, ref)[1])
               \/ is_open_or_true(Self, lits_of(Self, ref)[2])

\* a long clause has a false literal at literals[0] or literals[1] in a state
\* without conflict
C24_Witness ==
    /\ ~conflicting
    /\ \E ref \in ArenaRefs :
          /\ ~SatisfiedAtLevel0(ref)
          /\ \/ is_false(Self, lits_of(Self, ref)[1])
             \/ is_false(Self, lits_of(Self, ref)[2])

\* the watcher entries of clause ref in the watch list of literal l
WatchersOf(ref, l) ==
    { k \in 1..Len(watchers[l + 1]) : watchers[l + 1][k].clause = ref }

\* the long clause at ref is watched: some watch list has an entry for it
Watched(ref) == \E l \in 0..(Len(watchers) - 1) : WatchersOf(ref, l) # {}

PositionsOf(v) == { t \in 0..(Len(trail_lits) - 1) : var(trail_lits[t + 1]) = v }

OnTrail(l) == \E t \in 1..Len(trail_lits) : trail_lits[t] = l

LevelOfPosition(t) ==
    CHOOSE i \in 0..(Len(levels) - 1) :
       /\ levels[i + 1].trail_pos <= t
       /\ i + 1 < Len(levels) => t < levels[i + 2].trail_pos

\* C27: in every reachable state levels[0].begin = 0,
\* levels[i].begin <= levels[i+1].begin for all i, and for every trail
\* position p the level stored for var(trail[p]) equals the index i of the
\* level whose range [levels[i].begin, levels[i+1].begin) (trail end for the
\* top level) contains p.
C27_LevelsPartitionTrail ==
    /\ levels[1].trail_pos = 0
    /\ \A i \in 1..(Len(levels) - 1) : levels[i].trail_pos <= levels[i + 1].trail_pos
    /\ \A t \in 0..(Len(trail_lits) - 1) :
          /\ \E i \in 0..(Len(levels) - 1) :
                /\ levels[i + 1].trail_pos <= t
                /\ i + 1 < Len(levels) => t < levels[i + 2].trail_pos
          /\ vs_level(variables[var(trail_lits[t + 1])]) = LevelOfPosition(t)

\* resolve_conflicts has put a learnt literal on a level above 0 that held
\* other literals already
C27_Witness ==
    /\ call.name = "resolve_conflicts"
    /\ call.conflicting
    /\ call.ret
    /\ Len(levels) >= 2
    /\ Len(trail_lits) - levels[Len(levels)].trail_pos >= 2
    /\ levels[Len(levels)].trail_pos >= 1

\* C28: in every reachable state trail_queue_head <= trail length, and
\* whenever propagate() returns true (in the constructor, in push_level and
\* in resolve_conflicts) trail_queue_head equals the trail length.
C28_QueueHead ==
    /\ trail_queue_head <= Len(trail_lits)
    /\ (/\ call.name \in {"Propagator", "push_level", "resolve_conflicts"}
        /\ ~call.thrown
        /\ ~conflicting)
       => trail_queue_head = Len(trail_lits)

\* push_level has ended in a conflict before the last trail entry was
\* propagated
C28_Witness ==
    /\ call.name = "push_level"
    /\ conflicting
    /\ trail_queue_head < Len(trail_lits)
    /\ trail_queue_head >= 1

\* ------------------------------------------------------------------------
\* The clause computed by conflict analysis
\* ------------------------------------------------------------------------
\* the states in which resolve_conflicts, called in the state p, starts a
\* conflict analysis: p itself and the state after each jump whose
\* propagation fails
RECURSIVE AnalysisRounds(_)
AnalysisRounds(p) ==
    IF ~p.conflicting \/ Len(p.levels) = 1 THEN {}
    ELSE {p} \cup
         With(propagate(p_reset_conflict(
                  p_handle_conflict_clause(p_compute_conflict_clause(p)).p)),
              LAMBDA r : IF r.ret THEN {} ELSE AnalysisRounds(r.p))

\* the true literals whose negations make up the conflict reason
ConflictParents(p) ==
    { negate(l) : l \in Range(reason_lits(p, p.conflict_reason)) }

\* the literals reached from the set S by following reasons backwards at
\* most k times without entering a literal of avoid
RECURSIVE AncestorsAvoiding(_, _, _, _)
AncestorsAvoiding(p, S, avoid, k) ==
    IF k = 0 THEN S
    ELSE AncestorsAvoiding(
             p, S \cup (UNION { ReasonParents(p, x) : x \in S } \ avoid),
             avoid, k - 1)

\* the literals from which the conflict is reached in the implication graph
\* on paths that do not pass through a literal of avoid
ConflictAncestors(p, avoid) ==
    AncestorsAvoiding(p, ConflictParents(p) \ avoid, avoid, Len(p.trail_lits))

\* the decision of the current level
LevelDecision(p) == p.trail_lits[level_begin(p) + 1]

\* u is a unique implication point: a literal of the current level from
\* which the conflict is reached and through which every path from the
\* decision of the level to the conflict passes
IsUIP(p, u) ==
    /\ u \in Range(p.trail_lits)
    /\ get_decision_level(p, u) = get_current_level(p)
    /\ u \in ConflictAncestors(p, {})
    /\ LevelDecision(p) \notin ConflictAncestors(p, {u})

\* u is the first unique implication point: the one closest to the conflict
IsFirstUIP(p, u) ==
    /\ IsUIP(p, u)
    /\ \A w \in Range(p.trail_lits) :
          IsUIP(p, w) => get_trail_index(p, w) <= get_trail_index(p, u)

\* the clause computed by the analysis of the conflict of p is as claimed
ConflictClauseAsClaimed(p) ==
    With(p_compute_conflict_clause(p).learn_buffer, LAMBDA lb :
        /\ Len(lb) >= 1
        /\ \E u \in Range(p.trail_lits) : IsFirstUIP(p, u) /\ lb[1] = negate(u)
        /\ get_decision_level(p, lb[1]) = get_current_level(p)
        /\ \A i \in 2..Len(lb) :
              get_decision_level(p, lb[i]) # get_current_level(p)
        /\ \A i \in 1..Len(lb) : is_false(p, lb[i])
        /\ \A i \in 1..Len(lb) : get_decision_level(p, lb[i]) >= 1)

\* C29: in every conflict analysis of resolve_conflicts (the first and the
\* ones after a jump whose propagation failed), the computed clause holds the
\* negation of the first unique implication point at index 0, this literal is
\* the only one assigned at the current level, every literal is false under
\* the trail at the time of the analysis, and no literal is assigned at
\* level 0.
C29_ConflictClause ==
    (conflicting /\ Len(levels) > 1 /\ ConflictAboveRoot)
       => \A q \in AnalysisRounds(Self) : ConflictClauseAsClaimed(q)

\* a conflict whose first unique implication point is not the decision of
\* the level and whose clause has a literal of a lower level
C29_Witness ==
    /\ conflicting
    /\ Len(levels) > 2
    /\ With(p_compute_conflict_clause(Self).learn_buffer, LAMBDA lb :
          /\ Len(lb) >= 2
          /\ negate(lb[1]) # LevelDecision(Self))

\* ------------------------------------------------------------------------
\* Learnt clauses and the formula
\* ------------------------------------------------------------------------
\* the total assignments that satisfy every clause of the model
ModelAssignments ==
    { a \in [0..(m_num_vars - 1) -> BOOLEAN] : verify_assignment(model, a) }

\* the clause, a sequence of literals, is a consequence of the model
Consequence(c) ==
    \A a \in ModelAssignments : \E k \in 1..Len(c) : satisfies(a, c[k])

\* the clauses the propagator holds beyond those of the model: the unary
\* clauses appended to m_unary_clauses, the binary clauses that are not in
\* the lists of the model, and the clauses appended to the arena
LearntClauses ==
    { <<m_unary_clauses[i]>> :
         i \in (Len(model.m_unary_clauses) + 1)..Len(m_unary_clauses) }
    \cup UNION { { <<l, binary_partners_of(Self, l)[j]>> :
                      j \in { k \in 1..Len(binary_partners_of(Self, l)) :
                                 binary_partners_of(Self, l)[k]
                                    \notin Range(model.m_binary_clauses[l + 1]) } } :
                 l \in 0..(Len(m_binary_clauses) - 1) }
    \cup { lits_of(Self, ref) :
              ref \in { r \in ArenaRefs :
                           r > Len(NewPropagator(model).m_large_clause_db) } }

\* C30: in every reachable state, every clause of the propagator, and so
\* every clause installed by resolve_conflicts, is satisfied by every total
\* assignment that satisfies all clauses of the model.
C30_LearntClausesAreConsequences ==
    \A c \in AllClauses : Consequence(c)

\* resolve_conflicts has installed a unary, a binary or a long clause and the
\* model has a satisfying assignment that the clause is tested against
C30_Witness ==
    /\ call.name = "resolve_conflicts"
    /\ call.conflicting
    /\ ModelAssignments # {}
    /\ \E c \in LearntClauses : Len(c) >= 3
    /\ \E c \in LearntClauses : Len(c) = 2

\* ------------------------------------------------------------------------
\* The reduced formula
\* ------------------------------------------------------------------------
\* the literal of the reduced formula for the literal l of an open variable:
\* the open variables are numbered in their order
Renumbered(l) ==
    2 * Cardinality({ v \in 0..(var(l) - 1) : is_open(Self, 2 * v) }) + (l % 2)

\* the binary and long clauses of the propagator without a true literal,
\* each as the set of its renumbered open literals
ReducedCandidates ==
    { { Renumbered(c[k]) : k \in { j \in 1..Len(c) : is_open(Self, c[j]) } } :
         c \in { d \in AllClauses :
                    Len(d) >= 2 /\ \A k \in 1..Len(d) : ~is_true(Self, d[k]) } }

\* the elements of S that have no proper subset in S
SubsetMinimal(S) == { x \in S : \A y \in S : ~(y \subseteq x /\ y # x) }

\* the clauses of the extractor e, each as the set of its literals
ReducedClauseSets(e) ==
    { Range(e.m_reduced_clauses[i]) : i \in 1..Len(e.m_reduced_clauses) }

\* C22: when extract returns for a non-conflicting propagator, the reduced
\* clauses are, as a set, the subset-minimal ones among the binary and long
\* clauses without a true literal after deleting their false literals and
\* renumbering the open ones; every reduced clause has at least 2 literals
\* and holds neither FIXED_TRUE nor FIXED_FALSE; and translate_to_new followed
\* by translate_to_old is the identity on the literals of open variables and
\* keeps their polarity.
C22_ExtractReduced ==
    [][(Step("extract") /\ ~conflicting /\ call'.ret)
         => /\ ReducedClauseSets(extractor') = SubsetMinimal(ReducedCandidates)
            /\ \A i \in 1..Len(extractor'.m_reduced_clauses) :
                  /\ Len(extractor'.m_reduced_clauses[i]) >= 2
                  /\ \A k \in 1..Len(extractor'.m_reduced_clauses[i]) :
                        extractor'.m_reduced_clauses[i][k]
                           \notin {FIXED_TRUE, FIXED_FALSE}
            /\ \A l \in 0..(2 * m_num_vars - 1) :
                  is_open(Self, l)
                     => /\ translate_to_new(extractor', l) \in
                              0..(2 * reduced_num_vars(extractor') - 1)
                        /\ translate_to_old(extractor',
                                            translate_to_new(extractor', l)) = l
                        /\ positive(translate_to_new(extractor', l)) = positive(l)]_vars

\* extract has returned for a propagator with literals on the trail: a clause
\* was dropped for a true literal, a long clause lost a false literal, and
\* eliminate_subsumed has removed a clause
C22_Witness ==
    /\ call.name = "extract"
    /\ call.ret
    /\ \E c \in AllClauses : Len(c) >= 2 /\ \E k \in 1..Len(c) : is_true(Self, c[k])
    /\ \E c \in AllClauses :
          /\ Len(c) >= 3
          /\ \A k \in 1..Len(c) : ~is_true(Self, c[k])
          /\ \E k \in 1..Len(c) : is_false(Self, c[k])
    /\ Len(extractor.m_reduced_clauses) >= 1
    /\ Len(extractor.m_reduced_clauses)
          < Len(extract_translated(extractor, Self).m_reduced_clauses)

\* ------------------------------------------------------------------------
\* Reasons on the trail
\* ------------------------------------------------------------------------
\* the positions at which the sequence lits holds the literal l
OccurrencesIn(lits, l) == { k \in 1..Len(lits) : lits[k] = l }

Jumped(q) == p_handle_conflict_clause(p_compute_conflict_clause(q)).p

Propagated(q) == propagate(p_reset_conflict(Jumped(q))).p

\* the number of clauses learnt since construction
LearntCount ==
    (Len(m_unary_clauses) - Len(NewPropagator(model).m_unary_clauses))
    + Cardinality({ r \in ArenaRefs : r > Len(NewPropagator(model).m_large_clause_db) })
    + Cardinality({ c \in LearntClauses : Len(c) = 2 }) \div 2

\* C32: a call of resolve_conflicts never ends with more levels than it
\* started with; in a call on a conflict above level 0 every round ends its
\* jump on fewer levels than it started with, the propagation after the jump
\* keeps the number of levels, the number of rounds is at most the current
\* level at the time of the call, and the call ends on a lower level.
C32_ResolveOnlyRollsBack ==
    [][Step("resolve_conflicts")
         => /\ Len(levels') <= Len(levels)
            /\ (conflicting /\ Len(levels) > 1)
                  => /\ \A q \in AnalysisRounds(Self) :
                           /\ Len(Jumped(q).levels) < Len(q.levels)
                           /\ Len(Propagated(q).levels) = Len(Jumped(q).levels)
                     /\ Cardinality(AnalysisRounds(Self)) <= get_current_level(Self)
                     /\ Len(levels') < Len(levels)]_vars

\* resolve_conflicts was called on a conflict of level 2 after two
\* push_level calls and has learnt two clauses, one for each of its rounds
C32_Witness ==
    /\ call.name = "resolve_conflicts"
    /\ call.conflicting
    /\ call.level = 2
    /\ ncalls = 3
    /\ LearntCount >= 2

\* ------------------------------------------------------------------------
\* The steps inside propagate
\* ------------------------------------------------------------------------
\* the calls of p_propagate made by the loop of propagate() that starts in
\* the state p: each as the propagator at the call (trail_queue_head already
\* advanced) and the dequeued literal
RECURSIVE LoopVisits(_)
LoopVisits(p) ==
    IF p.trail_queue_head < Len(p.trail_lits)
    THEN With([p |-> [p EXCEPT !.trail_queue_head = @ + 1],
               ltrue |-> p.trail_lits[p.trail_queue_head + 1]], LAMBDA v :
         With(p_propagate(v.p, v.ltrue), LAMBDA r :
             {v} \cup (IF r.ret THEN LoopVisits(r.p) ELSE {})))
    ELSE {}

PropagateVisits(p) == IF p.conflicting THEN {} ELSE LoopVisits(p)

\* the propagator on which push_level(decision) calls propagate()
PushStart(p, decision) ==
    p_assign_at([p EXCEPT !.levels = Append(@, LevelInfo(Len(p.trail_lits)))],
                Len(p.levels), decision, Decision)

\* the calls of p_propagate made during the step: by push_level, or by the
\* rounds of resolve_conflicts
StepVisits ==
    IF call'.name = "push_level"
    THEN IF call'.thrown THEN {} ELSE PropagateVisits(PushStart(Self, call'.arg))
    ELSE IF call'.name = "resolve_conflicts"
    THEN UNION { PropagateVisits(p_reset_conflict(Jumped(q))) :
                    q \in AnalysisRounds(Self) }
    ELSE {}

\* the clause references of a watch list, in the order of the list
ClauseRefsOf(ws) == [i \in 1..Len(ws) |-> ws[i].clause]

\* a is a subsequence of b
RECURSIVE IsSubsequence(_, _)
IsSubsequence(a, b) ==
    IF a = <<>> THEN TRUE
    ELSE IF b = <<>> THEN FALSE
    ELSE IF a[1] = b[1] THEN IsSubsequence(Tail(a), Tail(b))
    ELSE IsSubsequence(a, Tail(b))

\* the watch list of the literal falsified by v.ltrue before and after
\* p_propagate_through_longer, which runs when the binary phase found no
\* conflict
WatchListBefore(v) ==
    p_propagate_through_binaries(v.p, v.ltrue).p.watchers[negate(v.ltrue) + 1]

WatchListAfter(v) ==
    p_propagate_through_longer(p_propagate_through_binaries(v.p, v.ltrue).p,
                               v.ltrue).p.watchers[negate(v.ltrue) + 1]

\* C33: for every literal dequeued by propagate during push_level or
\* resolve_conflicts whose binary phase finds no conflict, the clause
\* references of the watch list of the falsified literal after
\* p_propagate_through_longer are a subsequence of those before it, also when
\* the walk stops at a conflict.
C33_WatchOrderKept ==
    [][\A v \in StepVisits :
          p_propagate_through_binaries(v.p, v.ltrue).ret
             => IsSubsequence(ClauseRefsOf(WatchListAfter(v)),
                              ClauseRefsOf(WatchListBefore(v)))]_vars

\* push_level has ended in a conflict on a long clause: the walk over the
\* watch list of the falsified literal kept a watcher and then stopped at the
\* watcher of that clause, which is behind the kept one
C33_Witness ==
    /\ call.name = "push_level"
    /\ conflicting
    /\ conflict_reason.reason_length >= 3
    /\ trail_queue_head >= 1
    /\ With(watchers[negate(trail_lits[trail_queue_head]) + 1], LAMBDA ws :
          \E i \in 2..Len(ws) : ws[i].clause = conflict_reason.clause)

\* the reasons of the trail entries that p_propagate appends for the visit v
AppendedReasons(v) ==
    With(p_propagate(v.p, v.ltrue).p, LAMBDA q :
        SubSeq(q.trail_reasons, Len(v.p.trail_lits) + 1, Len(q.trail_lits)))

\* the binary partners of the literal falsified by v.ltrue that are open
\* when p_propagate is called
OpenPartners(v) ==
    { l \in Range(binary_partners_of(v.p, negate(v.ltrue))) : is_open(v.p, l) }

\* C34: for every literal dequeued by propagate during push_level or
\* resolve_conflicts, the trail entries appended with a binary reason come
\* before those appended with a long clause as reason, and the binary reasons
\* are those of the falsified literal; when the binary phase finds no conflict
\* every open partner is among the former; when it finds a conflict,
\* no entry is appended for a long clause and the watch lists and the clause
\* arena are as they were at the call.
C34_BinariesBeforeLonger ==
    [][\A v \in StepVisits :
          With(p_propagate(v.p, v.ltrue).p, LAMBDA q :
          With(AppendedReasons(v), LAMBDA rs :
             /\ \A i \in 1..Len(rs) : \A j \in 1..Len(rs) :
                   (rs[i].reason_length = 2 /\ rs[j].reason_length >= 3) => i < j
             /\ \A i \in 1..Len(rs) :
                   /\ rs[i].reason_length >= 2
                   /\ rs[i].reason_length = 2
                         => rs[i].literals[1] = negate(v.ltrue)
             /\ p_propagate_through_binaries(v.p, v.ltrue).ret
                   => OpenPartners(v) =
                         { rs[i].literals[2] :
                              i \in { k \in 1..Len(rs) : rs[k].reason_length = 2 } }
             /\ ~p_propagate_through_binaries(v.p, v.ltrue).ret
                   => /\ \A i \in 1..Len(rs) : rs[i].reason_length = 2
                      /\ q.watchers = v.p.watchers
                      /\ q.m_large_clause_db = v.p.m_large_clause_db
                      /\ q.conflicting
                      /\ q.conflict_reason.reason_length = 2))]_vars

\* after push_level the trail holds a literal, behind it a literal forced by
\* one of its binary clauses, and behind that a literal forced by a long
\* clause that holds the negation of the first and of no literal in between
C34_Witness ==
    /\ call.name = "push_level"
    /\ ~call.thrown
    /\ \E t \in 1..Len(trail_lits) :
       \E u \in (t + 1)..Len(trail_lits) :
       \E w \in (u + 1)..Len(trail_lits) :
          /\ trail_reasons[u] = Binary(negate(trail_lits[t]), trail_lits[u])
          /\ trail_reasons[w].reason_length >= 3
          /\ negate(trail_lits[t]) \in Range(reason_lits(Self, trail_reasons[w]))
          /\ \A k \in (t + 1)..(w - 1) :
                negate(trail_lits[k]) \notin Range(reason_lits(Self, trail_reasons[w]))

\* ------------------------------------------------------------------------
\* The conflict information
\* ------------------------------------------------------------------------
\* the conflict is the one the constructor found: the propagator of the model
\* is conflicting after construction and the conflict reason is still the one
\* the constructor left
ConstructionConflict ==
    /\ NewPropagator(model).conflicting
    /\ conflict_reason = NewPropagator(model).conflict_reason

\* C35 as stated: whenever the conflict flag is set, exactly one of these
\* holds: conflict_lit is not NIL, or the conflict is the construction-time
\* conflict whose reason is a long clause, with no conflict literal.
C35_Original ==
    conflicting
       => ((conflict_lit # NIL)
             # (/\ ConstructionConflict
                /\ conflict_reason.reason_length >= 3
                /\ conflict_lit = NIL))

\* C35, amended: whenever the conflict flag is set, exactly one of these
\* holds: conflict_lit is not NIL and is a false literal of the conflict
\* reason, or the conflict is the construction-time conflict with no conflict
\* literal, whose reason is a long clause (a long clause violated at level 0)
\* or the default reason without literals (a conflict among the unary and
\* binary clauses at level 0).
C35_ConflictLitOrConstruction ==
    conflicting
       => ((/\ conflict_lit # NIL
            /\ conflict_lit \in Range(reason_lits(Self, conflict_reason)))
             # (/\ ConstructionConflict
                /\ conflict_lit = NIL
                /\ conflict_reason.reason_length >= 3
                      \/ conflict_reason = Decision))

\* the constructor has found a conflict among the unary and binary clauses:
\* the flag is set, there is no conflict literal and no reason
C35_Witness ==
    /\ call.name = "Propagator"
    /\ conflicting
    /\ conflict_lit = NIL
    /\ conflict_reason = Decision
    /\ Len(trail_lits) >= 1

\* ------------------------------------------------------------------------
\* The unary clause store
\* ------------------------------------------------------------------------
\* every literal of the unary clause store is true and assigned at level 0
UnaryStoreHolds ==
    \A i \in 1..Len(m_unary_clauses) :
       /\ is_true(Self, m_unary_clauses[i])
       /\ get_decision_level(Self, m_unary_clauses[i]) = 0

\* the constructor found a unary clause or a partner of a level-0 literal
\* false: it stopped with the flag set and without a conflict reason
ShortClauseConflictAtConstruction ==
    /\ NewPropagator(model).conflicting
    /\ NewPropagator(model).conflict_reason = Decision

\* C36 as stated: after construction and after every later operation, every
\* literal of the unary clause store is true on the trail at level 0.
C36_Original == UnaryStoreHolds

\* C36, amended: unless the constructor found a conflict among the unary and
\* binary clauses, after construction and after every later operation every
\* literal of the unary clause store (original unary clauses, units derived
\* at construction, learnt unary clauses) is true on the trail at level 0.
C36_UnaryStoreAtLevel0 ==
    ~ShortClauseConflictAtConstruction => UnaryStoreHolds

\* resolve_conflicts has learnt a unary clause for a model whose store held
\* a unary clause after construction, and a level is open above level 0
C36_Witness ==
    /\ ~ShortClauseConflictAtConstruction
    /\ Len(m_unary_clauses) > Len(NewPropagator(model).m_unary_clauses)
    /\ Len(levels) > 1

\* ------------------------------------------------------------------------
\* Conflicts at level 0
\* ------------------------------------------------------------------------
\* resolve_conflicts on p keeps to the trail: there is no conflict, or p is
\* at level 0, or a literal of the conflict reason is assigned above level 0
CanResolve(p) ==
    \/ ~p.conflicting
    \/ Len(p.levels) = 1
    \/ \E i \in 1..Len(reason_lits(p, p.conflict_reason)) :
          get_decision_level(p, reason_lits(p, p.conflict_reason)[i]) >= 1

\* the propagators that one call of push_level, pop_level, reset_to_zero,
\* propagate or resolve_conflicts makes of p; a call that throws leaves p
FurtherCall(p) ==
    {push_level(p, decision).p : decision \in 0..(2 * p.m_num_vars - 1)}
       \cup {pop_level(p).p, reset_to_zero(p), propagate(p).p}
       \cup (IF CanResolve(p) THEN {resolve_conflicts(p, <<>>).p} ELSE {})

\* C37: once the propagator is conflicting at level 0, is_conflicting stays
\* true after every further sequence of push_level, pop_level,
\* reset_to_zero, propagate and resolve_conflicts calls; here for the
\* sequences of one and of two calls.
C37_RootConflictPermanent ==
    (conflicting /\ Len(levels) = 1)
       => \A q \in FurtherCall(Self) :
             /\ q.conflicting
             /\ \A r \in FurtherCall(q) : r.conflicting

\* a conflict at level 0 with an open variable, left by resolve_conflicts
\* returning false
C37_Witness ==
    /\ conflicting
    /\ Len(levels) = 1
    /\ call.name = "resolve_conflicts"
    /\ ~call.ret
    /\ \E v \in 0..(m_num_vars - 1) : vs_is_open(variables[v])

\* ------------------------------------------------------------------------
\* Decisions
\* ------------------------------------------------------------------------
\* the trail positions (from 1) at which the levels above level 0 begin
LevelBegins == {levels[i].trail_pos + 1 : i \in 2..Len(levels)}

\* the trail entries with reason Decision, in trail order
DecisionEntries ==
    SelectSeq(trail_lits,
              LAMBDA l : trail_reasons[get_trail_index(Self, l) + 1] = Decision)

\* C38: in every reachable state the trail entry at the begin of every level
\* i >= 1 has reason Decision, no other trail entry has reason Decision,
\* every level i >= 1 is non-empty, and get_decisions returns exactly these
\* entries in level order.
C38_DecisionsAtLevelBegins ==
    /\ \A i \in 2..Len(levels) :
          /\ levels[i].trail_pos < Len(trail_lits)
          /\ i < Len(levels) => levels[i].trail_pos < levels[i + 1].trail_pos
    /\ \A t \in 1..Len(trail_lits) :
          trail_reasons[t] = Decision <=> t \in LevelBegins
    /\ get_decisions(Self) = DecisionEntries

\* resolve_conflicts has jumped back to a level above level 0 and reported
\* assignments; the level holds forced entries behind its decision
C38_Witness ==
    /\ Len(levels) >= 2
    /\ Len(trail_lits) > levels[Len(levels)].trail_pos + 1
    /\ call.name = "resolve_conflicts"
    /\ call.ret
    /\ handler # <<>>

\* ------------------------------------------------------------------------
\* The notifications of resolve_conflicts
\* ------------------------------------------------------------------------
\* the pre-call trail literals of the levels below the current level
BelowCurrentLevel == Range(SubSeq(trail_lits, 1, level_begin(Self)))

\* the set after the first n notifications of log, starting from lits; ok is
\* lost when assignment_undone names an absent literal or assignment_forced
\* a present one
RECURSIVE Replay(_, _, _)
Replay(log, n, lits) ==
    IF n = 0 THEN [lits |-> lits, ok |-> TRUE]
    ELSE With(Replay(log, n - 1, lits), LAMBDA r :
             IF log[n].kind = "undone"
             THEN [lits |-> r.lits \ {log[n].lit},
                   ok |-> r.ok /\ log[n].lit \in r.lits]
             ELSE [lits |-> r.lits \cup {log[n].lit},
                   ok |-> r.ok /\ log[n].lit \notin r.lits])

\* C39: when resolve_conflicts(handler) returns true on a propagator that
\* was conflicting at level k >= 1, replaying the notifications in order on
\* the pre-call trail literals of levels 0..k-1 (assignment_undone removes a
\* present literal, assignment_forced adds an absent one) yields exactly the
\* literals on the trail after the call.
C39_ReplayYieldsTrail ==
    [][(/\ Step("resolve_conflicts")
        /\ conflicting
        /\ Len(levels) >= 2
        /\ call'.ret)
          => Replay(handler', Len(handler'), BelowCurrentLevel)
                = [lits |-> Range(trail_lits'), ok |-> TRUE]]_vars

\* a call of resolve_conflicts at level 2 that learnt two clauses, one in a
\* round whose propagation failed, returned true and reported assignments
\* undone and forced
C39_Witness ==
    /\ ncalls = 3
    /\ call.name = "resolve_conflicts"
    /\ call.conflicting
    /\ call.level = 2
    /\ call.ret
    /\ LearntCount >= 2
    /\ \E i \in 1..Len(handler) : handler[i].kind = "undone"
    /\ \E i \in 1..Len(handler) : handler[i].kind = "forced"

\* the literals reported through assignment_undone during the last call
UndoneDuringCall ==
    {handler[i].lit : i \in {j \in 1..Len(handler) : handler[j].kind = "undone"}}

\* C40: when resolve_conflicts(handler) returns false, no literal that is
\* still on the trail at return has been reported through assignment_undone
\* during the call.
C40_UndoneLeftTrail ==
    (call.name = "resolve_conflicts" /\ ~call.ret)
       => UndoneDuringCall \cap Range(trail_lits) = {}

\* resolve_conflicts was called on a conflict above level 0 and returned
\* false with entries on the trail of level 0
C40_Witness ==
    /\ call.name = "resolve_conflicts"
    /\ call.conflicting
    /\ call.level >= 1
    /\ ~call.ret
    /\ trail_lits # <<>>

====
